---- MODULE Spec2Model ----
(***************************************************************************)
(* Model of the applicant-tracking reconciliation engine (Google Apps      *)
(* Script): the three tables (Requisitions, Candidate Database, Active     *)
(* Candidates), the reconciliation pass, the debounce queue with its       *)
(* delayed trigger, and the document lock with its recursion guard.        *)
(*                                                                         *)
(* Cell text is a sequence of one-character strings, so that trimming,     *)
(* lower-casing, splitting and key building are computed as the code       *)
(* computes them.  A blank cell is the empty sequence.                     *)
(***************************************************************************)
EXTENDS Integers, Sequences, FiniteSets, TLC

(* ------------------------------------------------------------------ *)
(* Bounds of the model                                                 *)
(* ------------------------------------------------------------------ *)
MaxAll == 2
MaxAct == 2
MaxTriggers == 4
MaxEnq == 2

(* ------------------------------------------------------------------ *)
(* Text helpers                                                        *)
(* ------------------------------------------------------------------ *)
Blank == << >>

UpperChars == <<"A","B","C","D","E","F","G","H","I","J","K","L","M",
                "N","O","P","Q","R","S","T","U","V","W","X","Y","Z">>
LowerChars == <<"a","b","c","d","e","f","g","h","i","j","k","l","m",
                "n","o","p","q","r","s","t","u","v","w","x","y","z">>

LowerChar(c) ==
  IF \E i \in 1..26 : UpperChars[i] = c
  THEN LowerChars[CHOOSE i \in 1..26 : UpperChars[i] = c]
  ELSE c

UpperChar(c) ==
  IF \E i \in 1..26 : LowerChars[i] = c
  THEN UpperChars[CHOOSE i \in 1..26 : LowerChars[i] = c]
  ELSE c

\* String.prototype.toLowerCase
ToLower(s) == [i \in 1..Len(s) |-> LowerChar(s[i])]

\* String.prototype.trim
RECURSIVE TrimLeft(_)
TrimLeft(s) == IF s # Blank /\ Head(s) = " " THEN TrimLeft(Tail(s)) ELSE s

RECURSIVE TrimRight(_)
TrimRight(s) ==
  IF s # Blank /\ s[Len(s)] = " " THEN TrimRight(SubSeq(s, 1, Len(s) - 1)) ELSE s

Trim(s) == TrimRight(TrimLeft(s))

\* number of occurrences of character c in s
CountChar(s, c) == Cardinality({i \in 1..Len(s) : s[i] = c})

\* position of the first c in s (0 when absent)
FirstIndex(s, c) ==
  IF \E i \in 1..Len(s) : s[i] = c
  THEN CHOOSE i \in 1..Len(s) : s[i] = c /\ \A j \in 1..(i - 1) : s[j] # c
  ELSE 0

\* s.split(c)[0]
BeforeFirst(s, c) ==
  IF FirstIndex(s, c) = 0 THEN s ELSE SubSeq(s, 1, FirstIndex(s, c) - 1)

\* the text after the first c
AfterFirst(s, c) ==
  IF FirstIndex(s, c) = 0 THEN Blank ELSE SubSeq(s, FirstIndex(s, c) + 1, Len(s))

\* s.replace(/c/g, '')
RECURSIVE RemoveChar(_, _)
RemoveChar(s, c) ==
  IF s = Blank THEN Blank
  ELSE IF Head(s) = c THEN RemoveChar(Tail(s), c)
       ELSE <<Head(s)>> \o RemoveChar(Tail(s), c)

\* Array.prototype.includes on a sequence
Includes(seq, x) == \E i \in 1..Len(seq) : seq[i] = x

\* [...new Set(seq)]: first occurrences, in order
RECURSIVE Dedup(_)
Dedup(seq) ==
  IF seq = << >> THEN << >>
  ELSE LET front == Dedup(SubSeq(seq, 1, Len(seq) - 1))
           last  == seq[Len(seq)]
       IN  IF Includes(front, last) THEN front ELSE Append(front, last)

\* remove the element at position i
RemoveAt(seq, i) == SubSeq(seq, 1, i - 1) \o SubSeq(seq, i + 1, Len(seq))

(* ------------------------------------------------------------------ *)
(* Literals of the code                                                *)
(* ------------------------------------------------------------------ *)
GmailCom      == <<"g","m","a","i","l",".","c","o","m">>
GooglemailCom == <<"g","o","o","g","l","e","m","a","i","l",".","c","o","m">>

StrOpen     == <<"O","p","e","n">>
StrOnHold   == <<"O","n"," ","H","o","l","d">>
StrClosed   == <<"C","l","o","s","e","d">>
StrPending  == <<"P","e","n","d","i","n","g"," ","A","p","p","r","o","v","a","l">>
StrHired    == <<"H","i","r","e","d">>
StrRejected == <<"R","e","j","e","c","t","e","d">>
StrAll      == <<"a","l","l">>
StrHiredDifferent ==
  <<"H","i","r","e","d"," ","a"," ","D","i","f","f","e","r","e","n","t"," ",
    "C","a","n","d","i","d","a","t","e">>

\* nowDetroit(): the model has one abstract instant
Now == <<"#","n","o","w">>

(* ------------------------------------------------------------------ *)
(* Normalisation                                                       *)
(* ------------------------------------------------------------------ *)
\* _normStr_
NormStr(v) == Trim(v)

\* normEmail
NormEmail(s) ==
  LET Canonical(email, local, domain) ==
        IF domain = GmailCom \/ domain = GooglemailCom
        THEN BeforeFirst(RemoveChar(local, "."), "+") \o <<"@">> \o GmailCom
        ELSE email
      Norm(email) ==
        IF email = Blank \/ CountChar(email, "@") = 0 THEN email
        ELSE IF CountChar(email, "@") # 1 THEN email
        ELSE Canonical(email, BeforeFirst(email, "@"), AfterFirst(email, "@"))
  IN  Norm(ToLower(Trim(s)))

\* keyFor, for the case the code uses it in: jobId or email non-empty
KeyFor(jobId, email) == Trim(jobId) \o <<"|">> \o NormEmail(email)

\* _canonReqStatus_
CanonReqStatus(sRaw) ==
  LET Canon(s) ==
        IF s = Blank THEN Blank
        ELSE IF s = ToLower(StrOpen) THEN StrOpen
        ELSE IF s = ToLower(StrOnHold) THEN StrOnHold
        ELSE IF s = ToLower(StrClosed) THEN StrClosed
        ELSE IF s = ToLower(StrPending) THEN StrPending
        ELSE IF s = ToLower(StrHired) THEN StrHired
        ELSE <<UpperChar(Head(s))>> \o Tail(s)
  IN  Canon(ToLower(NormStr(sRaw)))

\* _isOpenForActive_
IsOpenForActive(status) == CanonReqStatus(status) \in {StrOpen, StrOnHold}

\* _valsEqual_ on text cells (the cell domain of the model holds no
\* numeric text and dates are text, so the comparison is the trimmed one)
ValsEqual(a, b) == Trim(a) = Trim(b)

(* ------------------------------------------------------------------ *)
(* Tables: a table is the sequence of its data rows, a row a record    *)
(* of the cells the engine reads or writes.                            *)
(* ------------------------------------------------------------------ *)
VARIABLES req, all, act

\* buildCandidateIndex: a row enters the index when its job ID or its
\* normalised email is non-empty
Indexed(row) == Trim(row.JobID) # Blank \/ NormEmail(row.Email) # Blank

\* buildCandidateIndex: the key a row is indexed under
RowKey(row) == KeyFor(Trim(row.JobID), NormEmail(row.Email))

\* buildCandidateIndex: index.get(key); a later row overwrites an
\* earlier one (0 when the key is absent)
IndexGet(table, key) ==
  LET Last(hits) == IF hits = {} THEN 0 ELSE CHOOSE i \in hits : \A j \in hits : j <= i
  IN  Last({i \in 1..Len(table) : Indexed(table[i]) /\ RowKey(table[i]) = key})

\* buildCandidateIndex: the keys of the index
IndexKeys(table) ==
  {RowKey(table[i]) : i \in {j \in 1..Len(table) : Indexed(table[j])}}

\* buildReqIndex: idx.get(jid), the last row carrying the job ID
ReqIndexGet(reqT, jid) ==
  LET Last(hits) == IF hits = {} THEN 0 ELSE CHOOSE i \in hits : \A j \in hits : j <= i
  IN  Last({i \in 1..Len(reqT) : Trim(reqT[i].JobID) # Blank
                                  /\ Trim(reqT[i].JobID) = jid})

\* the fields _upsertActiveRow_ mirrors into Active (MIRRORED_FIELDS that
\* are Active headers, the link columns excluded)
ActFields == {"FullName", "Email", "JobID", "JobStatus", "JobTitle",
              "Stage", "RejectedReason"}

\* a diff that reports every field, equal or not
DiffFieldsAlways(src, dst, fields) == fields

\* _diffFields_: the fields of `fields` whose source and target differ
DiffFields(src, dst, fields) == {f \in fields : ~ValsEqual(src[f], dst[f])}

\* setRowValuesByHeaders: write the cells `fields` of `row` from `vals`
SetRowValues(table, row, fields, vals) ==
  [table EXCEPT ![row] =
     [f \in DOMAIN table[row] |-> IF f \in fields THEN vals[f] ELSE table[row][f]]]

(* ------------------------------------------------------------------ *)
(* Reconciliation                                                      *)
(* A pass is computed on table values and returns the new Candidate    *)
(* Database and Active tables with the number of writes it made        *)
(* (cells written, rows inserted, rows deleted).                       *)
(* ------------------------------------------------------------------ *)

\* a filter that lets every job pass, whatever the list
FilterJobIgnoresList(jobIds, jid) == TRUE

\* the filterJob closure of reconcileActiveMembership_ByJobIds_
FilterJob(jobIds, jid) == jobIds = << >> \/ Includes(jobIds, jid)

\* setHyperlink on the Email cell of an Active row: the cell then shows
\* the label, which is the normalised email
SetMailtoLink(actT, row, email) == [actT EXCEPT ![row].Email = email]

\* _upsertActiveRow_: [act |-> new Active table, writes |-> writes made]
UpsertActiveRow(actT, allRowObj) ==
  LET Update(existing, desired, diff, email) ==
        [act    |-> SetMailtoLink(SetRowValues(actT, existing, diff, desired),
                                  existing, email),
         writes |-> Cardinality(diff) + 1]
      Insert(desired, email) ==
        [act    |-> SetMailtoLink(Append(actT, desired), Len(actT) + 1, email),
         writes |-> 1 + Cardinality(ActFields) + 1]
      Write(existing, desired, email) ==
        IF existing # 0
        THEN Update(existing, desired,
                    DiffFields(desired, actT[existing], ActFields), email)
        ELSE Insert(desired, email)
      Upsert(jobId, email) ==
        IF jobId = Blank \/ email = Blank THEN [act |-> actT, writes |-> 0]
        ELSE Write(IndexGet(actT, KeyFor(jobId, email)),
                   [f \in ActFields |-> allRowObj[f]], email)
  IN  Upsert(NormStr(allRowObj.JobID), NormEmail(allRowObj.Email))

\* the deletion pass: the Active rows reconcile deletes
RowsToDelete(reqT, allT, actT, jobIds) ==
  LET Status(reqRow) == IF reqRow # 0 THEN reqT[reqRow].JobStatus ELSE Blank
      Stale(k, jid) ==
        /\ FilterJob(jobIds, jid)
        /\ (IndexGet(allT, k) = 0 \/ ~IsOpenForActive(Status(ReqIndexGet(reqT, jid))))
  IN  {IndexGet(actT, key) : key \in
         {k \in IndexKeys(actT) : Stale(k, BeforeFirst(k, "|"))}}

\* a deletion pass that takes the rows in ascending order
NextDeleteAscending(rows) == CHOOSE x \in rows : \A y \in rows : x <= y

\* toDelete.sort((a,b) => b - a): the row the forEach deletes next
NextDelete(rows) == CHOOSE x \in rows : \A y \in rows : y <= x

\* toDelete.sort((a,b) => b - a).forEach(r => act.deleteRow(r))
RECURSIVE DeleteRowsDescending(_, _)
DeleteRowsDescending(actT, rows) ==
  IF rows = {} THEN actT
  ELSE DeleteRowsDescending(RemoveAt(actT, NextDelete(rows)),
                            rows \ {NextDelete(rows)})

\* a cache that never holds a mark
IsRecentlyEditedNever(muted, k) == FALSE

\* isRecentlyEdited(SHEET_ACTIVE, k): the cache holds the mark of key k
IsRecentlyEdited(muted, k) == k \in muted

\* one iteration of the loop over relevantRows, for Candidate row i;
\* st = [all, act, seen, writes]
ReconcileRow(reqT, muted, jobIds, i, st) ==
  LET Result(k, all1, w1, up) ==
        [all |-> all1, act |-> up.act, seen |-> st.seen \cup {k},
         writes |-> st.writes + w1 + up.writes]
      Mirror(k, canon, all1, w1) ==
        Result(k, all1, w1,
               IF IsOpenForActive(canon) /\ ~IsRecentlyEdited(muted, k)
               THEN UpsertActiveRow(st.act, all1[i])
               ELSE [act |-> st.act, writes |-> 0])
      Refresh(k, canon, wantAll, diffAll) ==
        Mirror(k, canon,
               IF diffAll = {} THEN st.all
               ELSE SetRowValues(st.all, i, diffAll \cup {"Updated"}, wantAll),
               IF diffAll = {} THEN 0 ELSE Cardinality(diffAll) + 1)
      Want(data, k, reqRow, canon) ==
        Refresh(k, canon,
                [JobTitle |-> reqT[reqRow].JobTitle, JobStatus |-> canon,
                 Updated |-> Now],
                DiffFields([JobTitle |-> reqT[reqRow].JobTitle,
                            JobStatus |-> canon],
                           data, {"JobTitle", "JobStatus"}))
      Row(data, jid, eml, k, reqRow) ==
        IF ~Indexed(data) THEN st
        ELSE IF jobIds # << >> /\ ~Includes(jobIds, jid) THEN st
        ELSE IF jid = Blank \/ eml = Blank \/ ~FilterJob(jobIds, jid) THEN st
        ELSE IF k \in st.seen THEN st
        ELSE IF reqRow = 0 THEN [st EXCEPT !.seen = @ \cup {k}]
        ELSE Want(data, k, reqRow, CanonReqStatus(reqT[reqRow].JobStatus))
      Keyed(data, jid, eml) ==
        Row(data, jid, eml, KeyFor(jid, eml), ReqIndexGet(reqT, jid))
  IN  Keyed(st.all[i], NormStr(st.all[i].JobID), NormEmail(st.all[i].Email))

RECURSIVE ReconcileLoop(_, _, _, _, _)
ReconcileLoop(reqT, muted, jobIds, i, st) ==
  IF i > Len(st.all) THEN st
  ELSE ReconcileLoop(reqT, muted, jobIds, i + 1,
                     ReconcileRow(reqT, muted, jobIds, i, st))

\* a reconciliation that also removes from Candidate Database the rows of
\* the jobs that are not open
ReconcileByJobIdsPrunesAll(reqT, allT, actT, muted, jobIds) ==
  LET Status(reqRow) == IF reqRow # 0 THEN reqT[reqRow].JobStatus ELSE Blank
      Open(r) == IsOpenForActive(Status(ReqIndexGet(reqT, NormStr(r.JobID))))
      Upserts(toDelete) ==
        ReconcileLoop(reqT, muted, jobIds, 1,
                      [all |-> SelectSeq(allT, Open),
                       act |-> DeleteRowsDescending(actT, toDelete),
                       seen |-> {}, writes |-> Cardinality(toDelete)])
  IN  Upserts(RowsToDelete(reqT, allT, actT, jobIds))

\* reconcileActiveMembership_ByJobIds_(jobIds): [all, act, seen, writes]
ReconcileByJobIds(reqT, allT, actT, muted, jobIds) ==
  LET Upserts(toDelete) ==
        ReconcileLoop(reqT, muted, jobIds, 1,
                      [all |-> allT, act |-> DeleteRowsDescending(actT, toDelete),
                       seen |-> {}, writes |-> Cardinality(toDelete)])
  IN  Upserts(RowsToDelete(reqT, allT, actT, jobIds))

\* reconcileActiveMembership_All_
ReconcileAll(reqT, allT, actT, muted) ==
  ReconcileByJobIds(reqT, allT, actT, muted, << >>)

(* ------------------------------------------------------------------ *)
(* Edit-time rules of the Candidate Database (Util.js, Requisitions.js)*)
(* ------------------------------------------------------------------ *)

\* the rows the tables of the model hold
MkReq(jobId, status, title) ==
  [JobID |-> jobId, JobStatus |-> status, JobTitle |-> title,
   Opened |-> Blank, OnHoldDate |-> Blank, ClosedDate |-> Blank,
   PositionHiredDate |-> Blank, HiredCandidateName |-> Blank,
   DaysOpen |-> Blank]

MkAll(name, jobId, email) ==
  [FullName |-> name, Email |-> email, JobID |-> jobId, JobStatus |-> Blank,
   JobTitle |-> Blank, Stage |-> Blank, RejectedReason |-> Blank,
   Created |-> Blank, Updated |-> Blank, HiredDate |-> Blank]

MkAct(name, jobId, email, status, title) ==
  [FullName |-> name, Email |-> email, JobID |-> jobId, JobStatus |-> status,
   JobTitle |-> title, Stage |-> Blank, RejectedReason |-> Blank]

\* an engine that leaves the hired name in place
StatusClearNameNever(o, status) == {}

\* applyReqStatusTransitionsForRows_: the hired name is cleared when the
\* status is not 'Hired'
StatusClearName(o, status) ==
  IF status # StrHired /\ o.HiredCandidateName # Blank
  THEN {"HiredCandidateName"} ELSE {}

\* an engine that stamps Opened on every run with status 'Open'
StatusStampRestampsOpened(o, status) ==
  CASE status = StrOpen   -> {"Opened"}
    [] status = StrOnHold -> IF o.OnHoldDate = Blank THEN {"OnHoldDate"} ELSE {}
    [] status = StrClosed -> IF o.ClosedDate = Blank THEN {"ClosedDate"} ELSE {}
    [] status = StrHired  ->
         (IF o.PositionHiredDate = Blank THEN {"PositionHiredDate"} ELSE {})
         \cup (IF o.ClosedDate = Blank THEN {"ClosedDate"} ELSE {})
    [] OTHER -> {}

\* an engine that also stamps Opened when the status is 'On Hold'
StatusStampOnHoldOpens(o, status) ==
  CASE status = StrOpen   -> IF o.Opened = Blank THEN {"Opened"} ELSE {}
    [] status = StrOnHold ->
         (IF o.OnHoldDate = Blank THEN {"OnHoldDate"} ELSE {})
         \cup (IF o.Opened = Blank THEN {"Opened"} ELSE {})
    [] status = StrClosed -> IF o.ClosedDate = Blank THEN {"ClosedDate"} ELSE {}
    [] status = StrHired  ->
         (IF o.PositionHiredDate = Blank THEN {"PositionHiredDate"} ELSE {})
         \cup (IF o.ClosedDate = Blank THEN {"ClosedDate"} ELSE {})
    [] OTHER -> {}

\* an engine that stamps only the hired date when the status is 'Hired'
StatusStampHiredOnly(o, status) ==
  CASE status = StrOpen   -> IF o.Opened = Blank THEN {"Opened"} ELSE {}
    [] status = StrOnHold -> IF o.OnHoldDate = Blank THEN {"OnHoldDate"} ELSE {}
    [] status = StrClosed -> IF o.ClosedDate = Blank THEN {"ClosedDate"} ELSE {}
    [] status = StrHired  ->
         IF o.PositionHiredDate = Blank THEN {"PositionHiredDate"} ELSE {}
    [] OTHER -> {}

\* applyReqStatusTransitionsForRows_, the switch: the date cells stamped
\* with now
StatusStamp(o, status) ==
  CASE status = StrOpen   -> IF o.Opened = Blank THEN {"Opened"} ELSE {}
    [] status = StrOnHold -> IF o.OnHoldDate = Blank THEN {"OnHoldDate"} ELSE {}
    [] status = StrClosed -> IF o.ClosedDate = Blank THEN {"ClosedDate"} ELSE {}
    [] status = StrHired  ->
         (IF o.PositionHiredDate = Blank THEN {"PositionHiredDate"} ELSE {})
         \cup (IF o.ClosedDate = Blank THEN {"ClosedDate"} ELSE {})
    [] OTHER -> {}

\* applyReqStatusTransitionsForRows_, the switch: the date cells cleared
StatusClear(o, status) ==
  CASE status = StrOpen ->
         {f \in {"OnHoldDate", "ClosedDate", "PositionHiredDate"} : o[f] # Blank}
    [] status = StrOnHold ->
         {f \in {"ClosedDate", "PositionHiredDate"} : o[f] # Blank}
    [] OTHER -> {}

\* applyReqStatusTransitionsForRows_, for one row
ApplyReqStatusTransitionsRow(reqT, row) ==
  LET Up(o, setNow, clr) ==
        [reqT EXCEPT ![row] =
           [f \in DOMAIN o |-> IF f \in setNow THEN Now
                               ELSE IF f \in clr THEN Blank
                               ELSE o[f]]]
      Engine(o, status) ==
        Up(o, StatusStamp(o, status),
           StatusClear(o, status) \cup StatusClearName(o, status))
  IN  Engine(reqT[row], NormStr(reqT[row].JobStatus))

\* applyHiredFlow_, part 1: the cells of the requisition row it writes
HiredFlowUpdates(reqT, reqRow, hiredFullName) ==
  (IF CanonReqStatus(reqT[reqRow].JobStatus) # StrHired
   THEN {"JobStatus"} ELSE {})
  \cup
  (IF hiredFullName # Blank /\
      NormStr(reqT[reqRow].HiredCandidateName) # NormStr(hiredFullName)
   THEN {"HiredCandidateName"} ELSE {})

\* applyHiredFlow_, part 1 up to setRowValuesByHeaders
HiredFlowSetReq(reqT, jobId, hiredFullName) ==
  LET Set(reqRow) ==
        SetRowValues(reqT, reqRow, HiredFlowUpdates(reqT, reqRow, hiredFullName),
                     [JobStatus |-> StrHired,
                      HiredCandidateName |-> hiredFullName])
      At(reqRow) == IF reqRow = 0 THEN reqT ELSE Set(reqRow)
  IN  At(ReqIndexGet(reqT, jobId))

\* applyHiredFlow_, part 1: the write and the status engine on the row
HiredFlowReq(reqT, jobId, hiredFullName) ==
  LET Run(reqRow) ==
        IF reqRow = 0 THEN reqT
        ELSE IF HiredFlowUpdates(reqT, reqRow, hiredFullName) = {} THEN reqT
        ELSE ApplyReqStatusTransitionsRow(
               HiredFlowSetReq(reqT, jobId, hiredFullName), reqRow)
  IN  Run(ReqIndexGet(reqT, jobId))

\* applyHiredFlow_, part 2, after the loop has passed row `upTo`
HiredFlowRivals(allT, jobId, hiredEmail, upTo) ==
  LET reject(r) == /\ Indexed(r)
                   /\ NormStr(r.JobID) = jobId
                   /\ NormEmail(r.Email) # hiredEmail
                   /\ NormStr(r.Stage) \notin {StrHired, StrRejected}
  IN  [i \in 1..Len(allT) |->
         IF i <= upTo /\ reject(allT[i])
         THEN [allT[i] EXCEPT !.Stage = StrRejected,
                              !.RejectedReason = StrHiredDifferent,
                              !.Updated = Now]
         ELSE allT[i]]

\* applyHiredFlow_: [req |-> Requisitions, all |-> Candidate Database]
ApplyHiredFlow(reqT, allT, jobId, hiredFullName, hiredEmail) ==
  [req |-> HiredFlowReq(reqT, jobId, hiredFullName),
   all |-> HiredFlowRivals(allT, jobId, hiredEmail, Len(allT))]

\* stampCreatedAndUpdated_All_, for one row; st = [req, all]
StampRow(st, row) ==
  LET Stamp(obj, flow, setNow, clr) ==
        [req |-> flow.req,
         all |-> [flow.all EXCEPT ![row] =
                    [f \in DOMAIN obj |-> IF f \in setNow THEN Now
                                          ELSE IF f \in clr THEN Blank
                                          ELSE flow.all[row][f]]]]
      Flow(obj, isHired, jobId, fullName, email) ==
        IF isHired /\ jobId # Blank /\ fullName # Blank /\ email # Blank
        THEN ApplyHiredFlow(st.req, st.all, jobId, fullName, email)
        ELSE st
      Dates(obj, meaningful, isHired) ==
        Stamp(obj,
              Flow(obj, isHired, NormStr(obj.JobID), NormStr(obj.FullName),
                   NormEmail(obj.Email)),
              (IF meaningful /\ Trim(obj.Created) = Blank THEN {"Created"} ELSE {})
                \cup (IF meaningful THEN {"Updated"} ELSE {})
                \cup (IF isHired /\ Trim(obj.HiredDate) = Blank
                      THEN {"HiredDate"} ELSE {}),
              IF ~isHired /\ Trim(obj.HiredDate) # Blank THEN {"HiredDate"} ELSE {})
      Obj(obj) ==
        Dates(obj, \E f \in DOMAIN obj : Trim(obj[f]) # Blank,
              NormStr(obj.Stage) = StrHired \/ NormStr(obj.JobStatus) = StrHired)
  IN  Obj(st.all[row])

\* stampCreatedAndUpdated_All_ over the edited rows (a sequence of row numbers)
RECURSIVE StampCreatedAndUpdated(_, _)
StampCreatedAndUpdated(st, rows) ==
  IF rows = << >> THEN st
  ELSE StampCreatedAndUpdated(StampRow(st, Head(rows)), Tail(rows))

\* enforceUniqueEmail_: the Email cell of an edited row is cleared when an
\* earlier row already carries the same normalised email
EnforceUniqueEmail(allT, rows) ==
  LET dup(i) == /\ NormEmail(allT[i].Email) # Blank
                /\ \E j \in 1..(i - 1) : NormEmail(allT[j].Email) = NormEmail(allT[i].Email)
                /\ Includes(rows, i)
  IN  [i \in 1..Len(allT) |->
         IF dup(i) THEN [allT[i] EXCEPT !.Email = Blank] ELSE allT[i]]

\* autopopulateAllFromJobId_, for one row
AutopopulateRow(reqT, allT, row) ==
  LET Fill(want, diff) ==
        IF diff = {} THEN allT
        ELSE SetRowValues(allT, row, diff \cup {"Updated"}, want)
      Want(cur, want) == Fill(want, DiffFields(want, cur, {"JobTitle", "JobStatus"}))
      Lookup(cur, jobId, reqRow) ==
        IF jobId = Blank \/ reqRow = 0 THEN allT
        ELSE Want(cur, [JobTitle  |-> reqT[reqRow].JobTitle,
                        JobStatus |-> CanonReqStatus(reqT[reqRow].JobStatus),
                        Updated   |-> Now])
      Row(cur, jobId) == Lookup(cur, jobId, ReqIndexGet(reqT, jobId))
  IN  Row(allT[row], NormStr(allT[row].JobID))

\* autopopulateAllFromJobId_ over the edited rows
RECURSIVE AutopopulateAllFromJobId(_, _, _)
AutopopulateAllFromJobId(reqT, allT, rows) ==
  IF rows = << >> THEN allT
  ELSE AutopopulateAllFromJobId(reqT, AutopopulateRow(reqT, allT, Head(rows)),
                                Tail(rows))

\* an upsert that appends a Candidate row when no row carries the key of
\* the edited Active row
UpsertAllFromActiveAppends(reqT, allT, actRowObj) ==
  IF IndexGet(allT, KeyFor(NormStr(actRowObj.JobID), NormEmail(actRowObj.Email))) = 0
  THEN [req |-> reqT,
        all |-> Append(allT, [f \in {"FullName", "Email", "JobID", "JobStatus",
                                     "JobTitle", "Stage", "RejectedReason",
                                     "Created", "Updated", "HiredDate"} |->
                                IF f \in {"Created", "Updated"} THEN Now
                                ELSE IF f = "HiredDate" THEN Blank
                                ELSE actRowObj[f]])]
  ELSE [req |-> reqT, all |-> allT]

\* upsertAllFromActive_: the mirrored fields of the edited Active row are
\* written to the Candidate row of its key; Created and Hired Date are
\* mirrored fields without an Active column, so their desired value is ''
UpsertAllFromActive(reqT, allT, actRowObj) ==
  LET Write(allRow, desired, diff) ==
        IF diff = {} THEN [req |-> reqT, all |-> allT]
        ELSE StampCreatedAndUpdated(
               [req |-> reqT, all |-> SetRowValues(allT, allRow, diff, desired)],
               <<allRow>>)
      Desired(allRow, desired) ==
        Write(allRow, desired, DiffFields(desired, allT[allRow], DOMAIN desired))
      Row(allRow) ==
        IF allRow = 0 THEN [req |-> reqT, all |-> allT]
        ELSE Desired(allRow,
                     [f \in ActFields \cup {"Created", "HiredDate", "Updated"} |->
                        IF f \in ActFields THEN actRowObj[f]
                        ELSE IF f = "Updated" THEN Now ELSE Blank])
      Upsert(jobId, email) ==
        IF jobId = Blank \/ email = Blank THEN [req |-> reqT, all |-> allT]
        ELSE Row(IndexGet(allT, KeyFor(jobId, email)))
  IN  Upsert(NormStr(actRowObj.JobID), NormEmail(actRowObj.Email))

\* _collectJobIdsFromAll_: the job IDs the edited rows hold now
CollectJobIdsFromAll(allT, rows) ==
  Dedup(SelectSeq([i \in 1..Len(rows) |-> Trim(allT[rows[i]].JobID)],
                  LAMBDA j : j # Blank))

(* ------------------------------------------------------------------ *)
(* Durable properties, cache, scheduler, locks, executions             *)
(* ------------------------------------------------------------------ *)
VARIABLES
  mute,        \* CacheService: the keys marked recently edited in Active
  queueProp,   \* DocumentProperties[PROP_QUEUE_JOBIDS]
  schedProp,   \* DocumentProperties[PROP_QUEUE_SCHEDULED]: a trigger id, 0 = absent
  guardProp,   \* DocumentProperties['recursion:guard'] is set
  triggers,    \* ScriptApp.getProjectTriggers() for Debounced_Reconcile_
  nextTid,     \* the next trigger id the scheduler hands out
  docLock,     \* LockService.getDocumentLock(): holder, 0 = free
  scriptLock,  \* LockService.getScriptLock(): holder, 0 = free
  ex,          \* the script executions, one record per slot
  batch,       \* history: what was enqueued since the last trigger fired
  processingHiredFlow,  \* the global _processingHiredFlow of Util.js
  hf,          \* the applyHiredFlow_ call in progress: position, arguments
  jobSeq,      \* DocumentProperties[PROP_JOBSEQ_PREFIX + year], per year
  year,        \* new Date().getFullYear()
  issued,      \* history: the job IDs ensureJobIds_ has assigned
  fn,          \* a call of a pure function: its argument and results
  pass         \* a reconciliation pass in progress, statement by statement

vars == <<req, all, act, mute, queueProp, schedProp, guardProp, triggers,
          nextTid, docLock, scriptLock, ex, batch, processingHiredFlow, hf,
          jobSeq, year, issued, fn, pass>>

\* the state of the Hired Flow and of the job-ID generator
aux == <<processingHiredFlow, hf, jobSeq, year, issued, fn, pass>>

tables == <<req, all, act>>
store  == <<queueProp, schedProp, triggers, nextTid>>
locks  == <<docLock, scriptLock>>

Procs == {1, 2}

\* a property value is a string; the model keeps what the code can tell apart
PropAbsent      == [t |-> "absent",  v |-> << >>]  \* getProperty returns null
PropText(s)     == [t |-> "text",    v |-> s]      \* text that is not JSON
PropJsonArr(a)  == [t |-> "jsonarr", v |-> a]      \* JSON text of an array of strings
PropJsonOther   == [t |-> "jsonval", v |-> << >>]  \* JSON text of a non-array value

\* JSON.stringify(Array.from(set))
JsonStringify(ids) == PropJsonArr(ids)

\* JSON.parse: [ok |-> parsed without throwing, isArray, arr]
JsonParse(p) ==
  CASE p.t = "jsonarr" -> [ok |-> TRUE,  isArray |-> TRUE,  arr |-> p.v]
    [] p.t = "jsonval" -> [ok |-> TRUE,  isArray |-> FALSE, arr |-> << >>]
    [] OTHER           -> [ok |-> FALSE, isArray |-> FALSE, arr |-> << >>]

\* jobIdsRaw === 'all'
IsBareAll(p) == p.t = "text" /\ p.v = StrAll

\* the Debounced_Reconcile_ triggers that are scheduled and have not fired
Unfired == {t \in triggers : ~t.fired}

\* the elements of a sequence
Elems(seq) == {seq[i] : i \in 1..Len(seq)}

\* an execution slot: its kind, its position, its locals, and history fields
\* (acq .. pend) that record what the execution has done so far
IdleEx == [kind |-> "idle", pc |-> "idle", ids |-> << >>, raw |-> PropAbsent,
           mk |-> 0, tid |-> 0,
           ev |-> [row |-> 0, email |-> FALSE, jobId |-> FALSE],
           acq |-> FALSE, busy |-> FALSE, fnRan |-> FALSE, busyCalls |-> 0,
           thrown |-> FALSE, escaped |-> FALSE, enq |-> FALSE,
           mode |-> "none", scope |-> << >>, qdel |-> FALSE, mdel |-> FALSE,
           idle0 |-> FALSE, pend |-> {}, former |-> {},
           sub |-> [name |-> Blank, jobId |-> Blank, email |-> Blank],
           stepLog |-> << >>, failed |-> {}]

\* what stays visible of an execution that has ended
Ended(r) == [IdleEx EXCEPT !.kind = r.kind, !.pc = "done", !.tid = r.tid,
                           !.acq = r.acq,
                           !.busy = r.busy, !.fnRan = r.fnRan,
                           !.busyCalls = r.busyCalls, !.escaped = r.escaped,
                           !.enq = r.enq, !.mode = r.mode, !.qdel = r.qdel,
                           !.mdel = r.mdel, !.sub = r.sub,
                           !.stepLog = r.stepLog, !.failed = r.failed]

EmptyBatch == [n |-> 0, ids |-> {}, former |-> {}]

\* the calendar years the model spans
Years == {2025, 2026}

\* getProperty returns null: no sequence stored for the year
SeqAbsent == -1

\* no applyHiredFlow_ call in progress
IdleHf == [pc |-> "idle", jobId |-> Blank, name |-> Blank, email |-> Blank,
           req0 |-> << >>, all0 |-> << >>, failed |-> "none",
           logged |-> FALSE]

\* no reconciliation pass under way
IdlePass == [pc |-> "idle", jobIds |-> << >>, toDelete |-> {}, selected |-> {},
             all0 |-> << >>, act0 |-> << >>, i |-> 0, seen |-> {},
             deleted |-> << >>]

\* no pure function under test
NoCall == [op |-> "none", arg |-> << >>, once |-> << >>, twice |-> << >>]

\* a fresh installation: no Hired Flow running, no job-ID sequence stored
InitAux ==
  /\ processingHiredFlow = FALSE
  /\ hf = IdleHf
  /\ jobSeq = [y \in Years |-> SeqAbsent]
  /\ year = 2025
  /\ issued = {}
  /\ fn = NoCall
  /\ pass = IdlePass

\* the entry points that pass withLock an onBusy fallback
HasOnBusy(kind) == kind \in {"onChange", "resync"}

\* the job IDs the onBusy fallback enqueues: enqueueAndSchedule_Reconcile(['all'])
OnBusyIds == <<StrAll>>

(* ------------------------------------------------------------------ *)
(* withLock (Util.js)                                                  *)
(* ------------------------------------------------------------------ *)

\* lock.tryLock(timeoutMs) succeeds
WithLockAcquire(p) ==
  /\ ex[p].pc = "lock"
  /\ docLock = 0
  /\ docLock' = p
  /\ ex' = [ex EXCEPT ![p].pc = "guard", ![p].acq = TRUE]
  /\ UNCHANGED <<tables, mute, aux, store, guardProp, scriptLock, batch>>

\* lock.tryLock(timeoutMs) times out and no onBusy was passed: the call
\* logs and returns
WithLockBusySkip(p) ==
  /\ ex[p].pc = "lock"
  /\ docLock \notin {0, p}
  /\ ~HasOnBusy(ex[p].kind)
  /\ ex' = [ex EXCEPT ![p] = Ended([ex[p] EXCEPT !.busy = TRUE])]
  /\ UNCHANGED <<tables, mute, aux, store, guardProp, locks, batch>>

\* lock.tryLock(timeoutMs) times out: try { onBusy(); } and onBusy goes on
\* to enqueueAndSchedule_Reconcile(['all'])
WithLockBusyFallback(p) ==
  /\ ex[p].pc = "lock"
  /\ docLock \notin {0, p}
  /\ HasOnBusy(ex[p].kind)
  /\ ex' = [ex EXCEPT ![p].pc = "e_lock", ![p].busy = TRUE,
                      ![p].busyCalls = @ + 1, ![p].ids = OnBusyIds]
  /\ UNCHANGED <<tables, mute, aux, store, guardProp, locks, batch>>

\* withLock without the try/catch around onBusy(): the exception of the
\* fallback leaves withLock
WithLockBusyThrowsEscapes(p) ==
  /\ ex[p].pc = "lock"
  /\ docLock \notin {0, p}
  /\ HasOnBusy(ex[p].kind)
  /\ ex' = [ex EXCEPT ![p] = Ended([ex[p] EXCEPT !.busy = TRUE,
                                                 !.busyCalls = @ + 1,
                                                 !.escaped = TRUE])]
  /\ UNCHANGED <<tables, mute, aux, store, guardProp, locks, batch>>

\* lock.tryLock(timeoutMs) times out: try { onBusy(); } catch (err) {..}
\* and onBusy throws; the exception is logged and withLock returns
WithLockBusyThrows(p) ==
  /\ ex[p].pc = "lock"
  /\ docLock \notin {0, p}
  /\ HasOnBusy(ex[p].kind)
  /\ ex' = [ex EXCEPT ![p] = Ended([ex[p] EXCEPT !.busy = TRUE,
                                                 !.busyCalls = @ + 1])]
  /\ UNCHANGED <<tables, mute, aux, store, guardProp, locks, batch>>

\* withLock without the test of the recursion guard: the guarded function
\* runs although the guard is set
WithLockGuardIgnored(p) ==
  /\ ex[p].pc = "guard"
  /\ guardProp
  /\ ex' = [ex EXCEPT ![p].pc = "body", ![p].fnRan = TRUE]
  /\ UNCHANGED <<tables, mute, aux, store, guardProp, locks, batch>>

\* if (StateManager.isRecursionGuardSet()) { logWarn(..); return; }
WithLockGuardBlocked(p) ==
  /\ ex[p].pc = "guard"
  /\ guardProp
  /\ ex' = [ex EXCEPT ![p].pc = "finally"]
  /\ UNCHANGED <<tables, mute, aux, store, guardProp, locks, batch>>

\* StateManager.setRecursionGuard(); return fn();
WithLockGuardSet(p) ==
  /\ ex[p].pc = "guard"
  /\ ~guardProp
  /\ guardProp' = TRUE
  /\ ex' = [ex EXCEPT ![p].pc = "body", ![p].fnRan = TRUE]
  /\ UNCHANGED <<tables, mute, aux, store, locks, batch>>

\* withLock with the cleanup after the call instead of in a finally block:
\* an exception thrown by fn skips it
WithLockCleanupOnReturnOnly(p) ==
  /\ ex[p].pc = "finally"
  /\ guardProp' = IF ex[p].thrown THEN guardProp ELSE FALSE
  /\ docLock' = IF ex[p].thrown THEN docLock ELSE 0
  /\ ex' = [ex EXCEPT ![p] = Ended([ex[p] EXCEPT !.escaped = ex[p].thrown])]
  /\ UNCHANGED <<tables, mute, aux, store, scriptLock, batch>>

\* finally { deleteRecursionGuard(); flush(); lock.releaseLock(); }
\* an exception thrown by fn leaves withLock after the finally block
WithLockFinally(p) ==
  /\ ex[p].pc = "finally"
  /\ guardProp' = FALSE
  /\ docLock' = 0
  /\ ex' = [ex EXCEPT ![p] = Ended([ex[p] EXCEPT !.escaped = ex[p].thrown])]
  /\ UNCHANGED <<tables, mute, aux, store, scriptLock, batch>>

\* where control goes when enqueueAndSchedule_Reconcile returns: back into
\* the locked body (then the finally block) or out of the onBusy fallback
AfterEnqueue(p) ==
  IF ex[p].acq THEN [ex EXCEPT ![p].pc = "finally"]
  ELSE [ex EXCEPT ![p] = Ended(ex[p])]

\* the execution ends; the slot is free for the next one
Finish(p) ==
  /\ ex[p].pc = "done"
  /\ ex' = [ex EXCEPT ![p] = IdleEx]
  /\ UNCHANGED <<tables, mute, aux, store, guardProp, locks, batch>>

(* ------------------------------------------------------------------ *)
(* enqueueAndSchedule_Reconcile, _scheduleReconcileTrigger (Settings)  *)
(* ------------------------------------------------------------------ *)

\* the queue is idle: nothing queued, no marker, no pending trigger and no
\* worker executing
QueueIdle ==
  /\ queueProp = PropAbsent
  /\ schedProp = 0
  /\ Unfired = {}
  /\ \A q \in Procs : ex[q].kind # "worker"

\* scriptLock.tryLock(2000) succeeds
EnqueueLockAcquire(p) ==
  /\ ex[p].pc = "e_lock"
  /\ scriptLock = 0
  /\ scriptLock' = p
  /\ ex' = [ex EXCEPT ![p].pc = "e_read", ![p].idle0 = QueueIdle]
  /\ UNCHANGED <<tables, mute, aux, store, guardProp, docLock, batch>>

\* scriptLock.tryLock(2000) times out: 'skipping enqueue'
EnqueueLockSkip(p) ==
  /\ ex[p].pc = "e_lock"
  /\ scriptLock \notin {0, p}
  /\ ex' = AfterEnqueue(p)
  /\ UNCHANGED <<tables, mute, aux, store, guardProp, locks, batch>>

\* const existing = dp.getProperty(key); if (existing === 'all') schedule only
EnqueueRead(p) ==
  /\ ex[p].pc = "e_read"
  /\ ex' = [ex EXCEPT ![p].raw = queueProp,
                      ![p].pc = IF IsBareAll(queueProp) THEN "s_read" ELSE "e_write"]
  /\ UNCHANGED <<tables, mute, aux, store, guardProp, locks, batch>>

\* existingIds = JSON.parse(existing || '[]'), [] when not an array or on
\* a parse error
ExistingIds(raw) ==
  IF raw = PropAbsent \/ (raw.t = "text" /\ raw.v = Blank) THEN << >>
  ELSE IF JsonParse(raw).ok /\ JsonParse(raw).isArray THEN JsonParse(raw).arr
  ELSE << >>

\* an enqueue that stores its own job IDs over the stored ones
EnqueueWriteOverwrites(p) ==
  /\ ex[p].pc = "e_write"
  /\ queueProp' = JsonStringify(Dedup(ex[p].ids))
  /\ ex' = [ex EXCEPT ![p].pc = "s_read", ![p].enq = TRUE]
  /\ UNCHANGED <<tables, mute, aux, schedProp, triggers, nextTid, guardProp,
                 locks, batch>>

\* dp.setProperty(key, JSON.stringify(Array.from(new Set([...existingIds, ...jobIds]))))
EnqueueWrite(p) ==
  /\ ex[p].pc = "e_write"
  /\ queueProp' = JsonStringify(Dedup(ExistingIds(ex[p].raw) \o ex[p].ids))
  /\ ex' = [ex EXCEPT ![p].pc = "s_read", ![p].enq = TRUE]
  /\ UNCHANGED <<tables, mute, aux, schedProp, triggers, nextTid, guardProp,
                 locks, batch>>

\* _cleanupOrphanedTriggers_: an untracked trigger is deleted when its age
\* test holds; the age is computed from getTriggerSource(), so the test is
\* left open for the triggers that have already fired and never holds for
\* one that is still waiting to fire
CleanupOrphanedTriggers(trigs, tracked) ==
  {trigs, {t \in trigs : t.id = tracked \/ ~t.fired}}

\* _scheduleReconcileTrigger, first part: clean up, then read the marker
ScheduleRead(p) ==
  /\ ex[p].pc = "s_read"
  /\ triggers' \in CleanupOrphanedTriggers(triggers, schedProp)
  /\ ex' = [ex EXCEPT ![p].mk = schedProp,
                      ![p].pc = IF schedProp = 0 THEN "s_create" ELSE "s_check"]
  /\ UNCHANGED <<tables, mute, aux, queueProp, schedProp, nextTid, guardProp,
                 locks, batch>>

\* triggers.some(t => t.getUniqueId() === existingTriggerId): the trigger
\* exists, 'already scheduled'
ScheduleCheckExists(p) ==
  /\ ex[p].pc = "s_check"
  /\ \E t \in triggers : t.id = ex[p].mk
  /\ ex' = [ex EXCEPT ![p].pc = "e_unlock"]
  /\ UNCHANGED <<tables, mute, aux, store, guardProp, locks, batch>>

\* the marker names no existing trigger: dp.deleteProperty(scheduledKey)
ScheduleCheckOrphan(p) ==
  /\ ex[p].pc = "s_check"
  /\ ~\E t \in triggers : t.id = ex[p].mk
  /\ schedProp' = 0
  /\ ex' = [ex EXCEPT ![p].pc = "s_create"]
  /\ UNCHANGED <<tables, mute, aux, queueProp, triggers, nextTid, guardProp,
                 locks, batch>>

\* ScriptApp.newTrigger('Debounced_Reconcile_').timeBased().after(..).create()
ScheduleCreate(p) ==
  /\ ex[p].pc = "s_create"
  /\ nextTid <= MaxTriggers
  /\ triggers' = triggers \cup
       {[id |-> nextTid, fired |-> FALSE]}
  /\ nextTid' = nextTid + 1
  /\ ex' = [ex EXCEPT ![p].mk = nextTid, ![p].pc = "s_set"]
  /\ UNCHANGED <<tables, mute, aux, queueProp, schedProp, guardProp, locks, batch>>

\* dp.setProperty(scheduledKey, trigger.getUniqueId())
ScheduleSet(p) ==
  /\ ex[p].pc = "s_set"
  /\ schedProp' = ex[p].mk
  /\ ex' = [ex EXCEPT ![p].pc = "e_unlock"]
  /\ UNCHANGED <<tables, mute, aux, queueProp, triggers, nextTid, guardProp,
                 locks, batch>>

\* finally { scriptLock.releaseLock(); }  The history variable counts the
\* enqueues of a batch that started on an idle queue, and collects the
\* former keys of the edits whose handler has enqueued.
EnqueueUnlock(p) ==
  /\ ex[p].pc = "e_unlock"
  /\ scriptLock' = 0
  /\ LET counted == IF batch.n = 0 THEN ex[p].idle0 ELSE TRUE
     IN  batch' = [n      |-> IF counted /\ batch.n < MaxEnq
                              THEN batch.n + 1 ELSE batch.n,
                   ids    |-> IF counted THEN batch.ids \cup Elems(ex[p].ids)
                              ELSE batch.ids,
                   former |-> batch.former \cup ex[p].former]
  /\ ex' = AfterEnqueue(p)
  /\ UNCHANGED <<tables, mute, aux, store, guardProp, docLock>>

(* ------------------------------------------------------------------ *)
(* Debounced_Reconcile_, _deleteReconcileTrigger (Settings.js)         *)
(* ------------------------------------------------------------------ *)

\* the platform fires a pending one-shot trigger: a worker execution starts;
\* the fired trigger stays in the project's trigger list.  A trigger is
\* created with after(DEBOUNCE_RECONCILE_MS), so it does not fire before the
\* statement that follows its creation has stored its id.  The enqueues
\* still in progress are no longer part of a batch that precedes the firing.
TriggerFire(p) ==
  /\ ex[p].pc = "idle"
  /\ \E t \in Unfired :
       /\ \A q \in Procs : ~(ex[q].pc = "s_set" /\ ex[q].mk = t.id)
       /\ triggers' = (triggers \ {t}) \cup {[id |-> t.id, fired |-> TRUE]}
       /\ ex' = [q \in Procs |->
                   IF q = p
                   THEN [IdleEx EXCEPT !.kind = "worker", !.pc = "lock",
                                       !.tid = t.id,
                                       !.pend = IF batch.n >= 2 THEN batch.ids
                                                ELSE {},
                                       !.former = batch.former]
                   ELSE [ex[q] EXCEPT !.idle0 = FALSE]]
  /\ batch' = EmptyBatch
  /\ UNCHANGED <<tables, mute, aux, queueProp, schedProp, nextTid, guardProp, locks>>

\* const jobIdsRaw = dp.getProperty(key)
WorkerRead(p) ==
  /\ ex[p].pc = "body"
  /\ ex[p].kind = "worker"
  /\ ex' = [ex EXCEPT ![p].raw = queueProp, ![p].pc = "w_run"]
  /\ UNCHANGED <<tables, mute, aux, store, guardProp, locks, batch>>

\* a worker without the Array.isArray test: a JSON value that is not an
\* array is taken for a list of job IDs
WorkerModeNoArrayTest(raw) ==
  IF raw = PropAbsent \/ (raw.t = "text" /\ raw.v = Blank) THEN "none"
  ELSE IF IsBareAll(raw) THEN "full"
  ELSE IF ~JsonParse(raw).ok THEN "corrupt"
  ELSE "scoped"

\* what the worker does with the value it read:
\*   "none"    nothing queued, or an empty or non-array JSON value
\*   "full"    the value is 'all': reconcileActiveMembership_All_()
\*   "corrupt" JSON.parse throws: reconcile skipped
\*   "scoped"  reconcileActiveMembership_ByJobIds_(jobIds)
WorkerMode(raw) ==
  IF raw = PropAbsent \/ (raw.t = "text" /\ raw.v = Blank) THEN "none"
  ELSE IF IsBareAll(raw) THEN "full"
  ELSE IF ~JsonParse(raw).ok THEN "corrupt"
  ELSE IF ~JsonParse(raw).isArray \/ JsonParse(raw).arr = << >> THEN "none"
  ELSE "scoped"

\* the job IDs the worker passes to reconcileActiveMembership_ByJobIds_
\* ([] is the full pass)
WorkerScope(raw) ==
  IF WorkerMode(raw) = "scoped" THEN JsonParse(raw).arr ELSE << >>

\* the worker reconciles: the full pass or the pass scoped to the queued IDs
WorkerReconcile(p) ==
  /\ ex[p].pc = "w_run"
  /\ WorkerMode(ex[p].raw) \in {"full", "scoped"}
  /\ \E r \in {ReconcileByJobIds(req, all, act, mute, WorkerScope(ex[p].raw))} :
       /\ all' = r.all
       /\ act' = r.act
  /\ ex' = [ex EXCEPT ![p].pc = "c_key", ![p].mode = WorkerMode(ex[p].raw),
                      ![p].scope = WorkerScope(ex[p].raw)]
  /\ UNCHANGED <<req, mute, aux, store, guardProp, locks, batch>>

\* the reconciliation throws before it has written; the exception is
\* caught and logged
WorkerReconcileThrows(p) ==
  /\ ex[p].pc = "w_run"
  /\ WorkerMode(ex[p].raw) \in {"full", "scoped"}
  /\ ex' = [ex EXCEPT ![p].pc = "c_key", ![p].mode = "threw"]
  /\ UNCHANGED <<tables, mute, aux, store, guardProp, locks, batch>>

\* a worker whose cleanup is not in a finally block: with nothing to
\* reconcile it returns at once
WorkerNoReconcileReturns(p) ==
  /\ ex[p].pc = "w_run"
  /\ WorkerMode(ex[p].raw) \in {"none", "corrupt"}
  /\ ex' = [ex EXCEPT ![p].pc = "finally", ![p].mode = WorkerMode(ex[p].raw)]
  /\ UNCHANGED <<tables, mute, aux, store, guardProp, locks, batch>>

\* nothing to reconcile: the queue is empty or its value cannot be used
WorkerNoReconcile(p) ==
  /\ ex[p].pc = "w_run"
  /\ WorkerMode(ex[p].raw) \in {"none", "corrupt"}
  /\ ex' = [ex EXCEPT ![p].pc = "c_key", ![p].mode = WorkerMode(ex[p].raw)]
  /\ UNCHANGED <<tables, mute, aux, store, guardProp, locks, batch>>

\* finally: dp.deleteProperty(key)
WorkerDeleteQueue(p) ==
  /\ ex[p].pc = "c_key"
  /\ queueProp' = PropAbsent
  /\ ex' = [ex EXCEPT ![p].pc = "c_sched", ![p].qdel = TRUE]
  /\ UNCHANGED <<tables, mute, aux, schedProp, triggers, nextTid, guardProp,
                 locks, batch>>

\* finally: dp.deleteProperty(scheduledKey)
WorkerDeleteMarker(p) ==
  /\ ex[p].pc = "c_sched"
  /\ schedProp' = 0
  /\ ex' = [ex EXCEPT ![p].pc = "d_read", ![p].mdel = TRUE]
  /\ UNCHANGED <<tables, mute, aux, queueProp, triggers, nextTid, guardProp,
                 locks, batch>>

\* _deleteReconcileTrigger: const triggerId = dp.getProperty(scheduledKey);
\* if (!triggerId) return;
DeleteTriggerRead(p) ==
  /\ ex[p].pc = "d_read"
  /\ ex' = [ex EXCEPT ![p].mk = schedProp,
                      ![p].pc = IF schedProp = 0 THEN "finally" ELSE "d_del"]
  /\ UNCHANGED <<tables, mute, aux, store, guardProp, locks, batch>>

\* _deleteReconcileTrigger: ScriptApp.deleteTrigger of the trigger whose id
\* was read
DeleteTriggerDelete(p) ==
  /\ ex[p].pc = "d_del"
  /\ triggers' = {t \in triggers : t.id # ex[p].mk}
  /\ ex' = [ex EXCEPT ![p].pc = "d_fin"]
  /\ UNCHANGED <<tables, mute, aux, queueProp, schedProp, nextTid, guardProp,
                 locks, batch>>

\* _deleteReconcileTrigger: finally { dp.deleteProperty(scheduledKey); }
DeleteTriggerFinally(p) ==
  /\ ex[p].pc = "d_fin"
  /\ schedProp' = 0
  /\ ex' = [ex EXCEPT ![p].pc = "finally"]
  /\ UNCHANGED <<tables, mute, aux, queueProp, triggers, nextTid, guardProp,
                 locks, batch>>

(* ------------------------------------------------------------------ *)
(* Entry points (Triggers.js)                                          *)
(* ------------------------------------------------------------------ *)

\* onChange_Installable on a structural change: withLock(.., 2000, onBusy)
StartOnChange(p) ==
  /\ ex[p].pc = "idle"
  /\ ex' = [ex EXCEPT ![p] = [IdleEx EXCEPT !.kind = "onChange", !.pc = "lock"]]
  /\ UNCHANGED <<tables, mute, aux, store, guardProp, locks, batch>>

\* onChange_Installable, the locked body: reconcileActiveMembership_All_()
OnChangeBody(p) ==
  /\ ex[p].pc = "body"
  /\ ex[p].kind = "onChange"
  /\ \E r \in {ReconcileAll(req, all, act, mute)} :
       /\ all' = r.all
       /\ act' = r.act
  /\ ex' = [ex EXCEPT ![p].pc = "finally", ![p].mode = "full"]
  /\ UNCHANGED <<req, mute, aux, store, guardProp, locks, batch>>

\* the user types `val` into cell `col` of Candidate Database row `row`;
\* onEdit_Installable dispatches the edit to handleEditAllCandidates.  The
\* history field `former` keeps the key the row had before a key edit.
UserEditAll(p, row, col, val) ==
  /\ ex[p].pc = "idle"
  /\ row \in 1..Len(all)
  /\ all' = [all EXCEPT ![row][col] = val]
  /\ ex' = [ex EXCEPT ![p] =
              [IdleEx EXCEPT !.kind = "editAll", !.pc = "lock",
                             !.ev = [row |-> row, email |-> col = "Email",
                                     jobId |-> col = "JobID"],
                             !.former = IF col \in {"Email", "JobID"}
                                           /\ Indexed(all[row])
                                           /\ RowKey(all'[row]) # RowKey(all[row])
                                        THEN {RowKey(all[row])} ELSE {}]]
  /\ UNCHANGED <<req, act, mute, aux, store, guardProp, locks, batch>>

\* the user edits a cell of Candidate Database row `row` in one of the
\* columns the model does not hold (Notes, Source, ..)
UserEditAllOther(p, row) ==
  /\ ex[p].pc = "idle"
  /\ row \in 1..Len(all)
  /\ ex' = [ex EXCEPT ![p] =
              [IdleEx EXCEPT !.kind = "editAll", !.pc = "lock",
                             !.ev = [row |-> row, email |-> FALSE,
                                     jobId |-> FALSE]]]
  /\ UNCHANGED <<tables, mute, aux, store, guardProp, locks, batch>>

\* handleEditAllCandidates, the locked body up to the enqueue
EditAllBody(p) ==
  /\ ex[p].pc = "body"
  /\ ex[p].kind = "editAll"
  /\ LET rows == <<ex[p].ev.row>>
         Unique(allT) == IF ex[p].ev.email THEN EnforceUniqueEmail(allT, rows)
                         ELSE allT
         Autopopulate(st) == IF ex[p].ev.jobId
                             THEN AutopopulateAllFromJobId(st.req, st.all, rows)
                             ELSE st.all
     IN  \E st2 \in {StampCreatedAndUpdated([req |-> req, all |-> Unique(all)],
                                             rows)} :
         \E all3 \in {Autopopulate(st2)} :
         \E ids \in {CollectJobIdsFromAll(all3, rows)} :
           /\ req' = st2.req
           /\ all' = all3
           /\ ex' = [ex EXCEPT ![p].ids = ids,
                               ![p].pc = IF ids # << >> THEN "e_lock"
                                         ELSE "finally"]
  /\ UNCHANGED <<act, mute, aux, store, guardProp, locks, batch>>

\* any other entry point that runs a function under withLock without an
\* onBusy fallback
StartOther(p) ==
  /\ ex[p].pc = "idle"
  /\ ex' = [ex EXCEPT ![p] = [IdleEx EXCEPT !.kind = "other", !.pc = "lock"]]
  /\ UNCHANGED <<tables, mute, aux, store, guardProp, locks, batch>>

\* the guarded function of such an entry point returns
OtherBodyReturns(p) ==
  /\ ex[p].pc = "body"
  /\ ex[p].kind = "other"
  /\ ex' = [ex EXCEPT ![p].pc = "finally"]
  /\ UNCHANGED <<tables, mute, aux, store, guardProp, locks, batch>>

\* the guarded function of such an entry point throws
OtherBodyThrows(p) ==
  /\ ex[p].pc = "body"
  /\ ex[p].kind = "other"
  /\ ex' = [ex EXCEPT ![p].pc = "finally", ![p].thrown = TRUE]
  /\ UNCHANGED <<tables, mute, aux, store, guardProp, locks, batch>>

\* the platform ends an execution inside the guarded function (execution
\* time limit): its lock is released, no finally block runs
ExecutionKilled(p) ==
  /\ ex[p].pc = "body"
  /\ ex[p].kind = "other"
  /\ docLock' = 0
  /\ ex' = [ex EXCEPT ![p] = IdleEx]
  /\ UNCHANGED <<tables, mute, aux, store, guardProp, scriptLock, batch>>

(* ------------------------------------------------------------------ *)
(* Cell values the specifications draw from                            *)
(* ------------------------------------------------------------------ *)
J1 == <<"J","1">>
J2 == <<"J","2">>
MailA  == <<"a","@","x">>
MailAU == <<"A","@","x">>
MailB  == <<"b","@","x">>
NameA  == <<"A","n","n">>
NameB  == <<"B","o","b">>
Title1 == <<"T","1">>
Title2 == <<"T","2">>
StrOnHoldRaw == <<"o","n"," ","h","o","l","d">>

\* the sequences over S of length at most n
SeqsUpTo(S, n) == UNION {[1..k -> S] : k \in 0..n}

\* a workbook whose Candidate Database was stamped and reconciled into an
\* empty Active sheet
Reconciled(reqT, allT) ==
  LET Pass(st) == ReconcileAll(st.req, st.all, << >>, {})
  IN  Pass(StampCreatedAndUpdated([req |-> reqT, all |-> allT],
                                  [i \in 1..Len(allT) |-> i]))

(* ------------------------------------------------------------------ *)
(* SpecQueue: the debounce queue, its trigger and the document lock    *)
(* over a small workbook.  Slot 1 runs the worker and the Candidate     *)
(* Database edit handler, slot 2 the structural-change handler.         *)
(* ------------------------------------------------------------------ *)
PendingTrigger == [id |-> 1, fired |-> FALSE]

\* the queue at the start: idle, or holding (with a trigger pending) a
\* value that the worker and the enqueue test for; the property store is
\* durable and keeps what an earlier version or an editor session wrote
QueueStarts ==
  { [q |-> PropAbsent,            s |-> 0, t |-> {},               n |-> 1],
    [q |-> PropText(StrAll),      s |-> 1, t |-> {PendingTrigger}, n |-> 2],
    [q |-> PropText(<<"{">>),     s |-> 1, t |-> {PendingTrigger}, n |-> 2] }

QueueReq == <<MkReq(J1, StrOpen, Title1), MkReq(J2, StrOpen, Title2)>>
QueueAll == <<MkAll(NameA, J1, MailA), MkAll(NameA, J2, MailB)>>

InitQueue ==
  /\ req = QueueReq
  /\ \E r \in {Reconciled(QueueReq, QueueAll)} :
       /\ all = r.all
       /\ act = r.act
  /\ mute = {}
  /\ \E s \in QueueStarts :
       /\ queueProp = s.q
       /\ schedProp = s.s
       /\ triggers = s.t
       /\ nextTid = s.n
  /\ guardProp = FALSE
  /\ docLock = 0
  /\ scriptLock = 0
  /\ ex = [p \in Procs |-> IdleEx]
  /\ batch = EmptyBatch
  /\ InitAux

NextQueue ==
  \/ \E p \in Procs : WithLockAcquire(p)
  \/ \E p \in Procs : WithLockBusySkip(p)
  \/ \E p \in Procs : WithLockBusyFallback(p)
  \/ \E p \in Procs : WithLockBusyThrows(p)
  \/ \E p \in Procs : WithLockGuardSet(p)
  \/ \E p \in Procs : WithLockFinally(p)
  \/ \E p \in Procs : EnqueueLockAcquire(p)
  \/ \E p \in Procs : EnqueueLockSkip(p)
  \/ \E p \in Procs : EnqueueRead(p)
  \/ \E p \in Procs : EnqueueWrite(p)
  \/ \E p \in Procs : ScheduleRead(p)
  \/ \E p \in Procs : ScheduleCheckExists(p)
  \/ \E p \in Procs : ScheduleCheckOrphan(p)
  \/ \E p \in Procs : ScheduleCreate(p)
  \/ \E p \in Procs : ScheduleSet(p)
  \/ \E p \in Procs : EnqueueUnlock(p)
  \/ \E p \in Procs : WorkerRead(p)
  \/ \E p \in Procs : WorkerReconcile(p)
  \/ \E p \in Procs : WorkerReconcileThrows(p)
  \/ \E p \in Procs : WorkerNoReconcile(p)
  \/ \E p \in Procs : WorkerDeleteQueue(p)
  \/ \E p \in Procs : WorkerDeleteMarker(p)
  \/ \E p \in Procs : DeleteTriggerRead(p)
  \/ \E p \in Procs : DeleteTriggerDelete(p)
  \/ \E p \in Procs : DeleteTriggerFinally(p)
  \/ \E p \in Procs : Finish(p)
  \/ TriggerFire(1)
  \/ StartOnChange(2)
  \/ \E p \in Procs : OnChangeBody(p)
  \/ \E row \in 1..MaxAll : UserEditAllOther(1, row)
  \/ \E p \in Procs : EditAllBody(p)

SpecQueue == InitQueue /\ [][NextQueue]_vars

(* ------------------------------------------------------------------ *)
(* SpecLock: withLock under contention.  Entry points without and with  *)
(* an onBusy fallback compete for the document lock; a guarded function *)
(* returns, throws, or is cut short by the platform.                    *)
(* ------------------------------------------------------------------ *)
InitLock ==
  /\ req = QueueReq
  /\ \E r \in {Reconciled(QueueReq, QueueAll)} :
       /\ all = r.all
       /\ act = r.act
  /\ mute = {}
  /\ queueProp = PropAbsent
  /\ schedProp = 0
  /\ triggers = {}
  /\ nextTid = 1
  /\ guardProp = FALSE
  /\ docLock = 0
  /\ scriptLock = 0
  /\ ex = [p \in Procs |-> IdleEx]
  /\ batch = EmptyBatch
  /\ InitAux

NextLock ==
  \/ \E p \in Procs : StartOther(p)
  \/ \E p \in Procs : StartOnChange(p)
  \/ \E p \in Procs : WithLockAcquire(p)
  \/ \E p \in Procs : WithLockBusySkip(p)
  \/ \E p \in Procs : WithLockBusyFallback(p)
  \/ \E p \in Procs : WithLockBusyThrows(p)
  \/ \E p \in Procs : WithLockGuardBlocked(p)
  \/ \E p \in Procs : WithLockGuardSet(p)
  \/ \E p \in Procs : OtherBodyReturns(p)
  \/ \E p \in Procs : OtherBodyThrows(p)
  \/ \E p \in Procs : ExecutionKilled(p)
  \/ \E p \in Procs : OnChangeBody(p)
  \/ \E p \in Procs : WithLockFinally(p)
  \/ \E p \in Procs : EnqueueLockAcquire(p)
  \/ \E p \in Procs : EnqueueRead(p)
  \/ \E p \in Procs : EnqueueWrite(p)
  \/ \E p \in Procs : ScheduleRead(p)
  \/ \E p \in Procs : ScheduleCheckExists(p)
  \/ \E p \in Procs : ScheduleCreate(p)
  \/ \E p \in Procs : ScheduleSet(p)
  \/ \E p \in Procs : EnqueueUnlock(p)
  \/ \E p \in Procs : Finish(p)

SpecLock == InitLock /\ [][NextLock]_vars

(* ------------------------------------------------------------------ *)
(* SpecRecon: the full reconciliation pass, run by the structural-      *)
(* change handler with the lock free, from arbitrary sheet contents     *)
(* ------------------------------------------------------------------ *)
ReconReqs ==
  {<<MkReq(J1, s, Title1)>> \o rest :
     s \in {StrOpen, StrOnHoldRaw, StrClosed},
     rest \in {<< >>, <<MkReq(J2, StrOpen, Title2)>>}}

ReconAllRows == {MkAll(NameA, j, e) : j \in {J1, J2}, e \in {MailA, MailAU, Blank}}

\* rows a user typed or an earlier pass left in Active: stale, orphaned
\* or duplicated
ReconActRows ==
  {MkAct(NameB, J1, MailA, StrOpen, Title1),
   MkAct(NameB, J2, MailA, StrOpen, Title1),
   MkAct(NameB, J1, MailB, StrOpen, Title1)}

InitRecon ==
  /\ req \in ReconReqs
  /\ all \in SeqsUpTo(ReconAllRows, MaxAll)
  /\ act \in SeqsUpTo(ReconActRows, MaxAct)
  /\ mute \in {{}, {KeyFor(J1, MailA)}}
  /\ queueProp = PropAbsent
  /\ schedProp = 0
  /\ triggers = {}
  /\ nextTid = 1
  /\ guardProp = FALSE
  /\ docLock = 0
  /\ scriptLock = 0
  /\ ex = [p \in Procs |-> IdleEx]
  /\ batch = EmptyBatch
  /\ InitAux

NextRecon ==
  \/ StartOnChange(1)
  \/ \E p \in Procs : WithLockAcquire(p)
  \/ \E p \in Procs : WithLockGuardSet(p)
  \/ \E p \in Procs : OnChangeBody(p)
  \/ \E p \in Procs : WithLockFinally(p)
  \/ \E p \in Procs : Finish(p)

SpecRecon == InitRecon /\ [][NextRecon]_vars

(* ------------------------------------------------------------------ *)
(* SpecEdit: key edits of Candidate Database rows in a reconciled       *)
(* workbook, each followed by its handler and the debounced worker      *)
(* ------------------------------------------------------------------ *)
EditReqs == {<<MkReq(J1, StrOpen, Title1), MkReq(J2, s, Title2)>> :
               s \in {StrOpen, StrClosed}}

EditAllRows == {MkAll(NameA, j, e) : j \in {J1, J2}, e \in {MailA, MailB}}

InitEdit ==
  /\ req \in EditReqs
  /\ \E rows \in SeqsUpTo(EditAllRows, MaxAll) :
       /\ rows # << >>
       /\ \E r \in {Reconciled(req, rows)} :
            /\ all = r.all
            /\ act = r.act
  /\ mute = {}
  /\ queueProp = PropAbsent
  /\ schedProp = 0
  /\ triggers = {}
  /\ nextTid = 1
  /\ guardProp = FALSE
  /\ docLock = 0
  /\ scriptLock = 0
  /\ ex = [p \in Procs |-> IdleEx]
  /\ batch = EmptyBatch
  /\ InitAux

\* the user makes at most MaxEnq key edits, all before the worker fires
EditsLeft == batch.n < MaxEnq /\ nextTid <= 2 /\ \A t \in triggers : ~t.fired

NextEdit ==
  \/ \E row \in 1..MaxAll, val \in {J1, J2} :
       /\ EditsLeft
       /\ row <= Len(all)
       /\ all[row].JobID # val
       /\ UserEditAll(1, row, "JobID", val)
  \/ \E row \in 1..MaxAll, val \in {MailA, MailB} :
       /\ EditsLeft
       /\ row <= Len(all)
       /\ all[row].Email # val
       /\ UserEditAll(1, row, "Email", val)
  \/ \E p \in Procs : WithLockAcquire(p)
  \/ \E p \in Procs : WithLockGuardSet(p)
  \/ \E p \in Procs : EditAllBody(p)
  \/ \E p \in Procs : EnqueueLockAcquire(p)
  \/ \E p \in Procs : EnqueueRead(p)
  \/ \E p \in Procs : EnqueueWrite(p)
  \/ \E p \in Procs : ScheduleRead(p)
  \/ \E p \in Procs : ScheduleCheckExists(p)
  \/ \E p \in Procs : ScheduleCreate(p)
  \/ \E p \in Procs : ScheduleSet(p)
  \/ \E p \in Procs : EnqueueUnlock(p)
  \/ \E p \in Procs : WithLockFinally(p)
  \/ \E p \in Procs : Finish(p)
  \/ TriggerFire(1)
  \/ \E p \in Procs : WorkerRead(p)
  \/ \E p \in Procs : WorkerReconcile(p)
  \/ \E p \in Procs : WorkerDeleteQueue(p)
  \/ \E p \in Procs : WorkerDeleteMarker(p)
  \/ \E p \in Procs : DeleteTriggerRead(p)

SpecEdit == InitEdit /\ [][NextEdit]_vars

(* ------------------------------------------------------------------ *)
(* Reconciliation (SpecRecon, SpecEdit)                                *)
(* ------------------------------------------------------------------ *)

\* a full reconciliation pass has just run
PostFullRun ==
  \E p \in Procs : ex[p].kind = "onChange" /\ ex[p].fnRan
                     /\ ex[p].pc \in {"finally", "done"}

\* the row carries a job ID and an email
FullKey(row) == Trim(row.JobID) # Blank /\ NormEmail(row.Email) # Blank

\* the keys (job ID, normalised email) of the rows of a table
KeysOf(table) == {RowKey(table[i]) : i \in {j \in 1..Len(table) : FullKey(table[j])}}

\* the Active rows under key k
ActRowsOf(k) == {i \in 1..Len(act) : FullKey(act[i]) /\ RowKey(act[i]) = k}

\* a Candidate Database row carries key k and its requisition exists with
\* status Open or On Hold
Qualifies(k) ==
  \E i \in 1..Len(all) :
    /\ FullKey(all[i])
    /\ RowKey(all[i]) = k
    /\ \E j \in 1..Len(req) :
         /\ Trim(req[j].JobID) = Trim(all[i].JobID)
         /\ \A j2 \in (j + 1)..Len(req) : Trim(req[j2].JobID) # Trim(all[i].JobID)
         /\ IsOpenForActive(req[j].JobStatus)

\* C1: after a full reconciliation a key has a row in Active if and only
\* if a Candidate Database row carries it and its requisition is Open or
\* On Hold (keys with both parts present, not marked recently edited).
C1_MembershipIff ==
  PostFullRun =>
    \A k \in (KeysOf(all) \cup KeysOf(act)) \ mute :
      (ActRowsOf(k) # {}) <=> Qualifies(k)

\* C2: after a full reconciliation every qualifying key has exactly one
\* row in Active, whatever Active held before (stale, orphaned or
\* duplicated rows).
C2_ExactlyOneRow ==
  PostFullRun =>
    \A k \in KeysOf(all) \ mute :
      Qualifies(k) => Cardinality(ActRowsOf(k)) = 1

\* Active holds one row for every qualifying key and no other row
ActiveIsClean ==
  /\ \A i \in 1..Len(act) : FullKey(act[i])
  /\ \A k \in KeysOf(all) \cup KeysOf(act) :
       Cardinality(ActRowsOf(k)) = (IF Qualifies(k) THEN 1 ELSE 0)

\* C3: a second full reconciliation that follows a full reconciliation
\* with no edit in between writes nothing (no cell write, row insert or
\* row delete); stated for the first passes that left Active clean, so that
\* the writes counted are not repairs of what the first pass left behind.
C3_SecondPassWritesNothing ==
  (PostFullRun /\ ActiveIsClean) => ReconcileAll(req, all, act, mute).writes = 0

\* C4: once the worker has reconciled after an edit of a Candidate Database
\* row's job ID or email, Active holds no row under the key the row had
\* before the edit, unless a Candidate Database row still carries that key.
C4_NoOrphanUnderFormerKey ==
  \A p \in Procs :
    (ex[p].kind = "worker" /\ ex[p].mode \in {"scoped", "full"}
       /\ ex[p].pc \in {"c_key", "c_sched", "d_read", "finally"})
      => \A k \in ex[p].former :
           IndexGet(act, k) # 0 => IndexGet(all, k) # 0

(* ------------------------------------------------------------------ *)
(* The debounce queue (SpecQueue)                                      *)
(* ------------------------------------------------------------------ *)

\* the job IDs the stored queue value holds
QueuedIds == Elems(ExistingIds(queueProp))

\* C5: when two enqueues have completed on a queue that was idle and the
\* worker has not yet fired, exactly one trigger is scheduled and the queue
\* holds the IDs of both; the worker run that this trigger starts passes
\* all of them to one reconciliation.
C5_Coalesced ==
  /\ batch.n >= 2 =>
       /\ Cardinality(Unfired) = 1
       /\ batch.ids \subseteq QueuedIds
  /\ \A p \in Procs :
       (ex[p].kind = "worker" /\ ex[p].pend # {} /\ ex[p].mode = "scoped")
         => ex[p].pend \subseteq Elems(ex[p].scope)

\* two enqueues with different IDs were coalesced and their one worker run
\* has reconciled both IDs
C5_Witness ==
  \E p \in Procs :
    /\ ex[p].kind = "worker"
    /\ ex[p].pc = "c_key"
    /\ ex[p].mode = "scoped"
    /\ ex[p].pend = {J1, J2}
    /\ Cardinality(Unfired) = 0

\* C6: under every interleaving of enqueues and worker runs, at most one
\* Debounced_Reconcile_ trigger is scheduled and has not yet fired.
C6_AtMostOneScheduled == Cardinality(Unfired) <= 1

\* C7: once the busy fallback of the structural-change handler has enqueued
\* its full-scope request, the queue holds the sentinel 'all', and a worker
\* run that reads a queue holding that request runs the full-table pass.
C7_FallbackRunsFullPass ==
  /\ \A p \in Procs :
       (ex[p].busy /\ ex[p].enq /\ ex[p].pc = "s_read") => IsBareAll(queueProp)
  /\ \A p \in Procs :
       (ex[p].kind = "worker" /\ ex[p].pc = "c_key" /\ ex[p].mode # "threw"
          /\ StrAll \in Elems(ExistingIds(ex[p].raw)))
         => ex[p].mode = "full"

\* C8: when a worker run whose body executed has ended (reconciliation done,
\* thrown, or skipped for a corrupt or empty payload) it has deleted the
\* queue entry and the marker, and no marker is left that names a trigger
\* which has already fired (such a marker would make every later enqueue
\* report 'already scheduled').
C8_CleanupAfterRun ==
  \A p \in Procs :
    (ex[p].kind = "worker" /\ ex[p].fnRan /\ ex[p].pc \in {"finally", "done"})
      => /\ ex[p].qdel
         /\ ex[p].mdel
         /\ ~\E t \in triggers : t.id = schedProp /\ t.fired

\* a worker run that threw, or that found a corrupt payload, has ended and
\* left neither queue entry nor marker
C8_Witness ==
  \E p \in Procs :
    /\ ex[p].kind = "worker"
    /\ ex[p].pc = "done"
    /\ ex[p].mode = "corrupt"
    /\ queueProp = PropAbsent
    /\ schedProp = 0

(* ------------------------------------------------------------------ *)
(* withLock (SpecLock)                                                 *)
(* ------------------------------------------------------------------ *)

\* C9: a withLock call that found the document lock busy has not run the
\* guarded function and has let no exception out; with an onBusy fallback
\* it has called the fallback exactly once, without one it has called
\* nothing and enqueued nothing.
C9_BusySkips ==
  \A p \in Procs :
    ex[p].busy =>
      /\ ~ex[p].fnRan
      /\ ~ex[p].acq
      /\ ~ex[p].escaped
      /\ ex[p].busyCalls = (IF HasOnBusy(ex[p].kind) THEN 1 ELSE 0)
      /\ ~HasOnBusy(ex[p].kind) => (~ex[p].enq /\ ex[p].pc = "done")

\* a call whose onBusy fallback threw has ended
C9_Witness ==
  \E p \in Procs :
    /\ ex[p].busy
    /\ ex[p].pc = "done"
    /\ ex[p].busyCalls = 1
    /\ ~ex[p].enq

\* C10: every step that ends a withLock call which had acquired the lock
\* leaves the document lock released and the recursion guard cleared,
\* whether the guarded function returned or threw.
C10_ReleasedAndCleared ==
  [][\A p \in Procs :
       (ex[p].acq /\ ex[p].pc # "done" /\ ex'[p].pc = "done")
         => (docLock' # p /\ ~guardProp')]_vars

\* a call whose guarded function threw has ended with the exception passed
\* on, the lock free and the guard cleared
C10_Witness ==
  \E p \in Procs :
    /\ ex[p].pc = "done"
    /\ ex[p].acq
    /\ ex[p].escaped
    /\ docLock = 0
    /\ ~guardProp

(* ------------------------------------------------------------------ *)
(* Days Open (Requisitions.js): the menu item 'Update Days Open'       *)
(* ------------------------------------------------------------------ *)

\* a date stamped before the instant Now
Earlier == <<"#","d","0">>

Digits == <<"0","1","2","3","4","5","6","7","8","9">>

\* the calendar of the model counts days from Sunday 2025-12-21 (day 0);
\* Date.getDay(): 0 is Sunday, 6 is Saturday
DayOfWeek(d) == d % 7

\* US_HOLIDAYS, the entries from day 0 on: 2025-12-25, 2026-01-01,
\* 2026-01-19, 2026-02-16
UsHolidays == {4, 11, 29, 57}

\* new Date('yyyy-MM-dd') is midnight UTC, which in the script's time zone
\* (America/New_York) is the evening of the day before
ParsedHoliday(h) == h - 1

\* a date cell that is empty
NoDate == -1

\* businessDaysBetween on day numbers (setHours(0,0,0,0) drops the time)
BusinessDaysBetween(a, b) ==
  LET Weekdays(S) == Cardinality({d \in S : DayOfWeek(d) \notin {0, 6}})
      Long(fullWeeks, remainingDays) ==
        fullWeeks * 5
        + Weekdays((a + fullWeeks * 7) .. (a + fullWeeks * 7 + remainingDays - 1))
        - Cardinality({h \in UsHolidays :
                         /\ ParsedHoliday(h) >= a
                         /\ ParsedHoliday(h) < b
                         /\ DayOfWeek(ParsedHoliday(h)) \notin {0, 6}})
      Short == Cardinality({d \in a..(b - 1) :
                              DayOfWeek(d) \notin {0, 6} /\ d \notin UsHolidays})
  IN  IF a = NoDate \/ b = NoDate THEN 0
      ELSE IF b <= a THEN 0
      ELSE IF b - a > 14 THEN Long((b - a) \div 7, (b - a) % 7)
      ELSE Short

\* Recompute_DaysOpen_Rows_: the count for a row with the given status and
\* dates when the current day is `today`
DaysOpen(status, opened, closed, hired, today) ==
  LET End == IF status # StrOpen /\ status # StrOnHold
             THEN IF closed # NoDate THEN closed
                  ELSE IF hired # NoDate THEN hired
                  ELSE today
             ELSE today
  IN  IF opened # NoDate THEN BusinessDaysBetween(opened, End) ELSE 0

\* String(days)
RECURSIVE DecStr(_)
DecStr(n) ==
  IF n < 10 THEN <<Digits[n + 1]>>
  ELSE DecStr(n \div 10) \o <<Digits[(n % 10) + 1]>>

\* the day of a date cell: Earlier is day 5, Now is day 33
DayOf(c) == IF c = Blank THEN NoDate ELSE IF c = Earlier THEN 5 ELSE 33

\* Recompute_DaysOpen_Rows_, for one row: the Days Open cell is written
\* when the count differs from what the cell shows
RecomputeDaysOpenRow(reqT, row) ==
  LET Days(o) == DecStr(DaysOpen(NormStr(o.JobStatus), DayOf(o.Opened),
                                 DayOf(o.ClosedDate),
                                 DayOf(o.PositionHiredDate), DayOf(Now)))
      Write(o, days) == IF days # o.DaysOpen
                        THEN [reqT EXCEPT ![row].DaysOpen = days] ELSE reqT
  IN  Write(reqT[row], Days(reqT[row]))

\* Recompute_DaysOpen_Rows_ over a sequence of row numbers
RECURSIVE RecomputeDaysOpenRows(_, _)
RecomputeDaysOpenRows(reqT, rows) ==
  IF rows = << >> THEN reqT
  ELSE RecomputeDaysOpenRows(RecomputeDaysOpenRow(reqT, Head(rows)), Tail(rows))

\* the user picks 'Update Days Open': the menu runs Recompute_DaysOpen_All
StartDaysOpen(p) ==
  /\ ex[p].pc = "idle"
  /\ ex' = [ex EXCEPT ![p] = [IdleEx EXCEPT !.kind = "daysOpen", !.pc = "days"]]
  /\ UNCHANGED <<tables, mute, aux, store, guardProp, locks, batch>>

\* Recompute_DaysOpen_All: every data row of Requisitions, no withLock
RecomputeDaysOpenAll(p) ==
  /\ ex[p].pc = "days"
  /\ req' = RecomputeDaysOpenRows(req, [i \in 1..Len(req) |-> i])
  /\ ex' = [ex EXCEPT ![p] = Ended(ex[p])]
  /\ UNCHANGED <<all, act, mute, aux, store, guardProp, locks, batch>>

(* ------------------------------------------------------------------ *)
(* SpecShared: the entry points of SpecLock and the menu item 'Update   *)
(* Days Open' over a workbook whose Active sheet may not be in sync     *)
(* ------------------------------------------------------------------ *)
InitShared ==
  /\ req = QueueReq
  /\ \E r \in {Reconciled(QueueReq, QueueAll)} :
       /\ all = r.all
       /\ act \in {r.act, << >>}
  /\ mute = {}
  /\ queueProp = PropAbsent
  /\ schedProp = 0
  /\ triggers = {}
  /\ nextTid = 1
  /\ guardProp = FALSE
  /\ docLock = 0
  /\ scriptLock = 0
  /\ ex = [p \in Procs |-> IdleEx]
  /\ batch = EmptyBatch
  /\ InitAux

NextShared ==
  \/ \E p \in Procs : StartOther(p)
  \/ \E p \in Procs : StartOnChange(p)
  \/ \E p \in Procs : StartDaysOpen(p)
  \/ \E p \in Procs : RecomputeDaysOpenAll(p)
  \/ \E p \in Procs : WithLockAcquire(p)
  \/ \E p \in Procs : WithLockBusySkip(p)
  \/ \E p \in Procs : WithLockBusyFallback(p)
  \/ \E p \in Procs : WithLockGuardSet(p)
  \/ \E p \in Procs : OtherBodyReturns(p)
  \/ \E p \in Procs : OnChangeBody(p)
  \/ \E p \in Procs : WithLockFinally(p)
  \/ \E p \in Procs : EnqueueLockAcquire(p)
  \/ \E p \in Procs : EnqueueRead(p)
  \/ \E p \in Procs : EnqueueWrite(p)
  \/ \E p \in Procs : ScheduleRead(p)
  \/ \E p \in Procs : ScheduleCheckExists(p)
  \/ \E p \in Procs : ScheduleCreate(p)
  \/ \E p \in Procs : ScheduleSet(p)
  \/ \E p \in Procs : EnqueueUnlock(p)
  \/ \E p \in Procs : Finish(p)

SpecShared == InitShared /\ [][NextShared]_vars

\* the executions that are inside the function withLock guards
InLockedBody == {p \in Procs : ex[p].acq /\ ex[p].pc \notin {"idle", "done"}}

\* the step is the user typing into a sheet: it starts an edit handler
UserTyped == \E p \in Procs : ex[p].pc = "idle" /\ ex'[p].kind \in {"editAll", "editReq"}

\* C11: at most one execution is inside its locked body at a time, and
\* every step of a script execution that changes Requisitions, Candidate
\* Database or Active Candidates is taken by the execution that holds the
\* document lock.
C11_OnlyLockHolderWrites ==
  /\ [](Cardinality(InLockedBody) <= 1)
  /\ [][(tables' # tables /\ ~UserTyped)
          => \E p \in Procs : docLock = p /\ ex'[p] # ex[p]]_vars

(* ------------------------------------------------------------------ *)
(* Job IDs (Requisitions.js, StateManager.js)                          *)
(* ------------------------------------------------------------------ *)
\* the value of a digit character
DigitVal(c) == (CHOOSE i \in 1..10 : Digits[i] = c) - 1

IsDigit(c) == \E i \in 1..10 : Digits[i] = c

\* String(n).padStart(4,'0') for 0 <= n <= 9999
Pad4(n) == <<Digits[((n \div 1000) % 10) + 1], Digits[((n \div 100) % 10) + 1],
             Digits[((n \div 10) % 10) + 1], Digits[(n % 10) + 1]>>

\* `${yyyy}-${String(last).padStart(4,'0')}`
FormatJobId(yyyy, n) == Pad4(yyyy) \o <<"-">> \o Pad4(n)

\* v.match(/^(\d{4})-(\d{4})$/)
MatchesJobId(v) ==
  /\ Len(v) = 9
  /\ v[5] = "-"
  /\ \A i \in {1, 2, 3, 4, 6, 7, 8, 9} : IsDigit(v[i])

\* +m[1] and +m[2] of a match
Num4(v, from) == DigitVal(v[from]) * 1000 + DigitVal(v[from + 1]) * 100
                 + DigitVal(v[from + 2]) * 10 + DigitVal(v[from + 3])

\* _initJobSeqIfNeeded_: when no sequence is stored for the year, store the
\* largest sequence number among this year's IDs in the sheet (0 if none)
InitJobSeqIfNeeded(seq, reqT, yyyy) ==
  LET Max(S) == IF S = {} THEN 0 ELSE CHOOSE m \in S : \A n \in S : n <= m
      Scan(ids) == Max({Num4(v, 6) : v \in {w \in ids : MatchesJobId(w)
                                                       /\ Num4(w, 1) = yyyy}})
  IN  IF seq[yyyy] # SeqAbsent THEN seq
      ELSE [seq EXCEPT ![yyyy] = Scan({Trim(reqT[i].JobID) : i \in 1..Len(reqT)})]

\* StateManager.getJobIdSequence: Number(value || '0')
GetJobIdSequence(seq, yyyy) == IF seq[yyyy] = SeqAbsent THEN 0 ELSE seq[yyyy]

\* _allocateNextJobIds_: [ids |-> the new IDs in order, seq |-> the store]
AllocateNextJobIds(seq, yyyy, count) ==
  LET Alloc(last) ==
        [ids |-> [i \in 1..count |-> FormatJobId(yyyy, last + i)],
         seq |-> [seq EXCEPT ![yyyy] = last + count]]
  IN  Alloc(GetJobIdSequence(seq, yyyy))

\* ensureJobIds_: a row with a title or a status and no job ID needs one
NeedsJobId(row) ==
  /\ (Trim(row.JobTitle) # Blank \/ Trim(row.JobStatus) # Blank)
  /\ Trim(row.JobID) = Blank

\* ensureJobIds_: [req |-> the sheet, seq |-> the store, ids |-> IDs assigned]
EnsureJobIds(reqT, seq, yyyy) ==
  LET Rank(i) == Cardinality({j \in 1..i : NeedsJobId(reqT[j])})
      Assign(al) ==
        [req |-> [i \in 1..Len(reqT) |->
                    IF NeedsJobId(reqT[i])
                    THEN [reqT[i] EXCEPT !.JobID = al.ids[Rank(i)]]
                    ELSE reqT[i]],
         seq |-> al.seq,
         ids |-> al.ids]
      Run(seq1, need) ==
        IF need > 0 THEN Assign(AllocateNextJobIds(seq1, yyyy, need))
        ELSE [req |-> reqT, seq |-> seq1, ids |-> << >>]
  IN  IF Len(reqT) = 0 THEN [req |-> reqT, seq |-> seq, ids |-> << >>]
      ELSE Run(InitJobSeqIfNeeded(seq, reqT, yyyy),
               Cardinality({i \in 1..Len(reqT) : NeedsJobId(reqT[i])}))

(* ------------------------------------------------------------------ *)
(* handleEditRequisitions (Triggers.js)                                *)
(* ------------------------------------------------------------------ *)

\* _collectJobIdsFromReqs_: the job IDs the edited rows hold
CollectJobIdsFromReqs(reqT, rows) ==
  Dedup(SelectSeq([i \in 1..Len(rows) |-> Trim(reqT[rows[i]].JobID)],
                  LAMBDA j : j # Blank))

\* the user types `val` into cell `col` of Requisitions row `row`;
\* onEdit_Installable dispatches the edit to handleEditRequisitions
UserEditReq(p, row, col, val) ==
  /\ ex[p].pc = "idle"
  /\ row \in 1..Len(req)
  /\ req' = [req EXCEPT ![row][col] = val]
  /\ ex' = [ex EXCEPT ![p] =
              [IdleEx EXCEPT !.kind = "editReq", !.pc = "lock",
                             !.ev = [row |-> row, email |-> FALSE,
                                     jobId |-> col = "JobID"]]]
  /\ UNCHANGED <<all, act, mute, aux, store, guardProp, locks, batch>>

\* handleEditRequisitions, the locked body up to the enqueue: ensureJobIds_,
\* then applyReqStatusTransitionsForRows_ on the edited row
EditReqBody(p) ==
  /\ ex[p].pc = "body"
  /\ ex[p].kind = "editReq"
  /\ \E j \in {EnsureJobIds(req, jobSeq, year)} :
     \E req2 \in {ApplyReqStatusTransitionsRow(j.req, ex[p].ev.row)} :
     \E ids \in {CollectJobIdsFromReqs(req2, <<ex[p].ev.row>>)} :
       /\ req' = req2
       /\ jobSeq' = j.seq
       /\ issued' = issued \cup Elems(j.ids)
       /\ ex' = [ex EXCEPT ![p].ids = ids,
                           ![p].pc = IF ids # << >> THEN "e_lock" ELSE "finally"]
  /\ UNCHANGED <<all, act, mute, fn, pass, processingHiredFlow, hf, year, store,
                 guardProp, locks, batch>>

(* ------------------------------------------------------------------ *)
(* SpecStatus: the user sets the status of a requisition, again and     *)
(* again; each edit runs handleEditRequisitions and with it the status  *)
(* engine on the edited row                                             *)
(* ------------------------------------------------------------------ *)

\* the requisition rows at the start: any status of the vocabulary, each
\* date cell empty or holding an earlier date, a hired name or none
StatusReqRows ==
  {[JobID |-> J1, JobStatus |-> s, JobTitle |-> Title1, Opened |-> d[1],
    OnHoldDate |-> d[2], ClosedDate |-> d[3], PositionHiredDate |-> d[4],
    HiredCandidateName |-> n, DaysOpen |-> Blank] :
     s \in {Blank, StrOpen, StrOnHold, StrClosed, StrHired},
     d \in [1..4 -> {Blank, Earlier}],
     n \in {Blank, NameA}}

\* what the user selects or types into the Job Status cell
StatusValues == {StrOpen, StrOnHold, StrClosed, StrHired, StrPending,
                 <<" ">> \o StrOpen, ToLower(StrHired)}

InitStatus ==
  /\ req \in {<<r>> : r \in StatusReqRows}
  /\ all = << >>
  /\ act = << >>
  /\ mute = {}
  /\ queueProp = PropAbsent
  /\ schedProp = 0
  /\ triggers = {}
  /\ nextTid = 1
  /\ guardProp = FALSE
  /\ docLock = 0
  /\ scriptLock = 0
  /\ ex = [p \in Procs |-> IdleEx]
  /\ batch = EmptyBatch
  /\ InitAux

NextStatus ==
  \/ \E val \in StatusValues :
       /\ req[1].JobStatus # val
       /\ UserEditReq(1, 1, "JobStatus", val)
  \/ \E p \in Procs : WithLockAcquire(p)
  \/ \E p \in Procs : WithLockGuardSet(p)
  \/ \E p \in Procs : EditReqBody(p)
  \/ \E p \in Procs : EnqueueLockAcquire(p)
  \/ \E p \in Procs : EnqueueRead(p)
  \/ \E p \in Procs : EnqueueWrite(p)
  \/ \E p \in Procs : ScheduleRead(p)
  \/ \E p \in Procs : ScheduleCheckExists(p)
  \/ \E p \in Procs : ScheduleCreate(p)
  \/ \E p \in Procs : ScheduleSet(p)
  \/ \E p \in Procs : EnqueueUnlock(p)
  \/ \E p \in Procs : WithLockFinally(p)
  \/ \E p \in Procs : Finish(p)

SpecStatus == InitStatus /\ [][NextStatus]_vars

\* the step runs the status engine on the row an edit handler was started for
EngineRuns(p) == ex[p].kind = "editReq" /\ ex[p].pc = "body" /\ ex'[p].pc # "body"

\* the status the engine reads from row `row`: the trimmed cell text
StatusOf(row) == NormStr(req[row].JobStatus)

\* a date cell after a step: stamped if it was empty, else what it was
StampedIfUnset(row, f) ==
  req'[row][f] = (IF req[row][f] = Blank THEN Now ELSE req[row][f])

\* the status engine has run on a row with the given status
EngineRanOn(status) ==
  \E p \in Procs :
    /\ ex[p].kind = "editReq"
    /\ ex[p].pc \in {"e_lock", "finally"}
    /\ ex[p].fnRan
    /\ NormStr(req[ex[p].ev.row].JobStatus) = status

\* C12: when the status engine runs on a requisition whose status is Open,
\* the opened date is stamped if it was empty and is otherwise left as it
\* was, and the on-hold, closed and hired dates are empty afterwards; and
\* no run of the engine, whatever the status, changes or clears an opened
\* date that is set.
C12_OpenKeepsOpenedDate ==
  [][\A p \in Procs : EngineRuns(p) =>
       /\ StatusOf(ex[p].ev.row) = StrOpen =>
            /\ StampedIfUnset(ex[p].ev.row, "Opened")
            /\ req'[ex[p].ev.row].OnHoldDate = Blank
            /\ req'[ex[p].ev.row].ClosedDate = Blank
            /\ req'[ex[p].ev.row].PositionHiredDate = Blank
       /\ \A i \in 1..Len(req) :
            req[i].Opened # Blank => req'[i].Opened = req[i].Opened]_vars

\* the engine has run with status Open on a row whose opened date was set
\* before the first edit: the date is still the earlier one and the other
\* dates are empty
C12_Witness ==
  /\ EngineRanOn(StrOpen)
  /\ req[1].Opened = Earlier
  /\ req[1].OnHoldDate = Blank
  /\ req[1].ClosedDate = Blank
  /\ req[1].PositionHiredDate = Blank
  /\ queueProp # PropAbsent

\* C13: when the status engine runs on a requisition whose status is On
\* Hold, the on-hold date is stamped if it was empty, the opened date is
\* left as it was (empty stays empty), and the closed and hired dates are
\* empty afterwards.
C13_OnHoldLeavesOpenedDate ==
  [][\A p \in Procs :
       (EngineRuns(p) /\ StatusOf(ex[p].ev.row) = StrOnHold) =>
         /\ StampedIfUnset(ex[p].ev.row, "OnHoldDate")
         /\ req'[ex[p].ev.row].Opened = req[ex[p].ev.row].Opened
         /\ req'[ex[p].ev.row].ClosedDate = Blank
         /\ req'[ex[p].ev.row].PositionHiredDate = Blank]_vars

\* the engine has run with status On Hold on a row that never had an
\* opened date: on-hold date stamped, opened date still empty
C13_Witness ==
  /\ EngineRanOn(StrOnHold)
  /\ req[1].OnHoldDate = Now
  /\ req[1].Opened = Blank
  /\ req[1].ClosedDate = Blank
  /\ req[1].PositionHiredDate = Blank

\* C14: when the status engine runs on a requisition whose status is
\* Hired, the hired date and the closed date are each stamped if empty;
\* when it runs on one whose status is Closed, the closed date is stamped
\* if empty; in both cases every date that was set keeps its value.
C14_HiredAndClosedStamp ==
  [][\A p \in Procs :
       (EngineRuns(p) /\ StatusOf(ex[p].ev.row) \in {StrHired, StrClosed}) =>
         /\ StampedIfUnset(ex[p].ev.row, "ClosedDate")
         /\ StatusOf(ex[p].ev.row) = StrHired =>
              StampedIfUnset(ex[p].ev.row, "PositionHiredDate")
         /\ \A f \in {"Opened", "OnHoldDate", "ClosedDate", "PositionHiredDate"} :
              req[ex[p].ev.row][f] # Blank =>
                req'[ex[p].ev.row][f] = req[ex[p].ev.row][f]]_vars

\* the engine has run with status Hired on a row whose hired date was set
\* and whose closed date was empty: the closed date is stamped, the hired
\* date is the earlier one
C14_Witness ==
  /\ EngineRanOn(StrHired)
  /\ req[1].PositionHiredDate = Earlier
  /\ req[1].ClosedDate = Now

\* C15: when the status engine runs on a requisition whose status is not
\* Hired, the hired candidate name is empty afterwards.
C15_NotHiredClearsName ==
  [][\A p \in Procs :
       (EngineRuns(p) /\ StatusOf(ex[p].ev.row) # StrHired) =>
         req'[ex[p].ev.row].HiredCandidateName = Blank]_vars

\* a requisition that was Hired with a hired name has been set to Closed:
\* the hired dates remain, the name is gone
C15_Witness ==
  /\ EngineRanOn(StrClosed)
  /\ req[1].PositionHiredDate = Now
  /\ req[1].HiredCandidateName = Blank

(* ------------------------------------------------------------------ *)
(* Email uniqueness after an edit of the Email column (SpecEdit)        *)
(* ------------------------------------------------------------------ *)

\* no two rows of the table carry the same non-empty normalised email,
\* the rows in `except` left aside
EmailsUnique(allT, except) ==
  \A i, j \in (1..Len(allT)) \ except :
    (i # j /\ NormEmail(allT[i].Email) # Blank)
      => NormEmail(allT[i].Email) # NormEmail(allT[j].Email)

\* the step runs the locked body of handleEditAllCandidates for an edit
\* that touched the Email column
UniqueEmailRuns(p) ==
  /\ ex[p].kind = "editAll"
  /\ ex[p].pc = "body"
  /\ ex[p].ev.email
  /\ ex'[p].pc # "body"

\* C18: after enforceUniqueEmail_ has run for an edited row, no two rows of
\* Candidate Database carry the same non-empty normalised email, whether
\* the edited row stands before or after the row whose email it repeats
\* (the other rows carried distinct emails before the edit).
C18_EmailUniqueAfterEdit ==
  [][\A p \in Procs :
       (UniqueEmailRuns(p) /\ EmailsUnique(all, {ex[p].ev.row}))
         => EmailsUnique(all', {})]_vars

(* ------------------------------------------------------------------ *)
(* SpecHire: applyHiredFlow_ step by step, as stampCreatedAndUpdated_All_*)
(* calls it for a hired candidate row; a sheet operation may throw in   *)
(* either half                                                          *)
(* ------------------------------------------------------------------ *)

StrInterviewing == <<"I","n","t","e","r","v","i","e","w","i","n","g">>

\* stampCreatedAndUpdated_All_ calls applyHiredFlow_ for row `row`
HiredFlowCall(row) ==
  /\ hf.pc \in {"idle", "returned"}
  /\ ~processingHiredFlow
  /\ row \in 1..Len(all)
  /\ NormStr(all[row].Stage) = StrHired \/ NormStr(all[row].JobStatus) = StrHired
  /\ NormStr(all[row].JobID) # Blank
  /\ NormStr(all[row].FullName) # Blank
  /\ NormEmail(all[row].Email) # Blank
  /\ processingHiredFlow' = TRUE
  /\ hf' = [IdleHf EXCEPT !.pc = "part1",
                          !.jobId = NormStr(all[row].JobID),
                          !.name = NormStr(all[row].FullName),
                          !.email = NormEmail(all[row].Email),
                          !.req0 = req, !.all0 = all]
  /\ UNCHANGED <<tables, mute, fn, pass, jobSeq, year, issued, store, guardProp, locks,
                 batch, ex>>

\* part 1: update the Requisitions row and run the status engine on it
HiredFlowPart1 ==
  /\ hf.pc = "part1"
  /\ req' = HiredFlowReq(req, hf.jobId, hf.name)
  /\ hf' = [hf EXCEPT !.pc = "part2"]
  /\ UNCHANGED <<all, act, mute, fn, pass, processingHiredFlow, jobSeq, year, issued,
                 store, guardProp, locks, batch, ex>>

\* part 2: reject the other candidates of the job
HiredFlowPart2 ==
  /\ hf.pc = "part2"
  /\ all' = HiredFlowRivals(all, hf.jobId, hf.email, Len(all))
  /\ hf' = [hf EXCEPT !.pc = "finally"]
  /\ UNCHANGED <<req, act, mute, fn, pass, processingHiredFlow, jobSeq, year, issued,
                 store, guardProp, locks, batch, ex>>

\* a sheet operation throws: in part 1 before the row is written or
\* between the write and the status engine; in part 2 before some row of
\* the loop
HiredFlowThrows ==
  /\ \/ /\ hf.pc = "part1"
        /\ req' \in {req, HiredFlowSetReq(req, hf.jobId, hf.name)}
        /\ all' = all
        /\ hf' = [hf EXCEPT !.pc = "catch", !.failed = "part1"]
     \/ /\ hf.pc = "part2"
        /\ \E k \in 0..(Len(all) - 1) :
             all' = HiredFlowRivals(all, hf.jobId, hf.email, k)
        /\ req' = req
        /\ hf' = [hf EXCEPT !.pc = "catch", !.failed = "part2"]
  /\ UNCHANGED <<act, mute, fn, pass, processingHiredFlow, jobSeq, year, issued, store,
                 guardProp, locks, batch, ex>>

\* catch (e) { logWarn(...) }
HiredFlowCatch ==
  /\ hf.pc = "catch"
  /\ hf' = [hf EXCEPT !.pc = "finally", !.logged = TRUE]
  /\ UNCHANGED <<tables, mute, fn, pass, processingHiredFlow, jobSeq, year, issued,
                 store, guardProp, locks, batch, ex>>

\* a flow whose flag is reset only at the end of the try block
HiredFlowFinallyOnSuccessOnly ==
  /\ hf.pc = "finally"
  /\ processingHiredFlow' = (hf.failed # "none")
  /\ hf' = [hf EXCEPT !.pc = "returned"]
  /\ UNCHANGED <<tables, mute, fn, pass, jobSeq, year, issued, store, guardProp, locks,
                 batch, ex>>

\* finally { _processingHiredFlow = false }, and the return to the caller
HiredFlowFinally ==
  /\ hf.pc = "finally"
  /\ processingHiredFlow' = FALSE
  /\ hf' = [hf EXCEPT !.pc = "returned"]
  /\ UNCHANGED <<tables, mute, fn, pass, jobSeq, year, issued, store, guardProp, locks,
                 batch, ex>>

\* the Requisitions sheets of SpecHire: job J1 in any status, also typed in
\* lower case, with or without a hired name
HireReqs ==
  {<<[MkReq(J1, s, Title1) EXCEPT !.HiredCandidateName = n]>> :
     s \in {StrOpen, StrOnHold, StrClosed, StrHired, ToLower(StrHired)},
     n \in {Blank, NameA, NameB}}

\* the Candidate Database rows of SpecHire
HireAllRows ==
  {[MkAll(IF e = MailA THEN NameA ELSE NameB, j, e) EXCEPT !.Stage = s] :
     j \in {J1, J2}, e \in {MailA, MailB},
     s \in {StrHired, StrRejected, StrInterviewing}}

InitHire ==
  /\ req \in HireReqs
  /\ all \in SeqsUpTo(HireAllRows, MaxAll)
  /\ act = << >>
  /\ mute = {}
  /\ queueProp = PropAbsent
  /\ schedProp = 0
  /\ triggers = {}
  /\ nextTid = 1
  /\ guardProp = FALSE
  /\ docLock = 0
  /\ scriptLock = 0
  /\ ex = [p \in Procs |-> IdleEx]
  /\ batch = EmptyBatch
  /\ InitAux

NextHire ==
  \/ \E row \in 1..MaxAll : HiredFlowCall(row)
  \/ HiredFlowPart1
  \/ HiredFlowPart2
  \/ HiredFlowThrows
  \/ HiredFlowCatch
  \/ HiredFlowFinally

SpecHire == InitHire /\ [][NextHire]_vars

\* row r of the table the flow started on belongs to another candidate of
\* the flow's job
OtherCandidate(r) ==
  /\ NormStr(r.JobID) = hf.jobId
  /\ NormEmail(r.Email) # hf.email

\* C16: after the Hired Flow has run (no failure) for a candidate whose
\* job ID is a known Requisition, that Requisition's status is Hired and
\* its hired candidate name is the candidate's full name; every other
\* candidate of the job whose stage was neither Hired nor Rejected is
\* Rejected with reason "Hired a Different Candidate"; every other row of
\* Candidate Database is as it was.
C16_HiredFlowPostconditions ==
  (hf.pc = "returned" /\ hf.failed = "none"
     /\ ReqIndexGet(hf.req0, hf.jobId) # 0) =>
    /\ CanonReqStatus(req[ReqIndexGet(hf.req0, hf.jobId)].JobStatus) = StrHired
    /\ req[ReqIndexGet(hf.req0, hf.jobId)].HiredCandidateName = hf.name
    /\ \A i \in 1..Len(hf.all0) :
         IF OtherCandidate(hf.all0[i])
            /\ NormStr(hf.all0[i].Stage) \notin {StrHired, StrRejected}
         THEN /\ all[i].Stage = StrRejected
              /\ all[i].RejectedReason = StrHiredDifferent
         ELSE all[i] = hf.all0[i]

\* C17: a failure in either half of the Hired Flow is caught and logged
\* and the call returns to its caller; handling the failure changes no
\* table, so what the halves wrote stays (a failure in the rival
\* rejection leaves the requisition update in place); and whenever the
\* call has returned, the re-entrancy flag is cleared.
C17_FailureContained ==
  /\ [](hf.pc = "returned" => ~processingHiredFlow)
  /\ []((hf.pc = "returned" /\ hf.failed # "none") => hf.logged)
  /\ []((hf.pc = "returned" /\ hf.failed = "part2")
          => req = HiredFlowReq(hf.req0, hf.jobId, hf.name))
  /\ [][hf.pc \in {"catch", "finally"} => tables' = tables]_vars

\* the rival rejection failed after the requisition was updated and after
\* one rival was rejected: the call returned, both writes are in place,
\* the failure is logged and the flag is cleared
C17_Witness ==
  /\ hf.pc = "returned"
  /\ hf.failed = "part2"
  /\ hf.logged
  /\ ~processingHiredFlow
  /\ req # hf.req0
  /\ all # hf.all0

(* ------------------------------------------------------------------ *)
(* SpecForm: form submissions (StateManager.processFormSubmission),     *)
(* two of them may arrive at the same time                              *)
(* ------------------------------------------------------------------ *)

\* a form response arrives: the onFormSubmit trigger starts
\* processFormSubmission with the submitted name, job ID and email
StartForm(p, name, jobId, email) ==
  /\ ex[p].pc = "idle"
  /\ Len(all) < MaxAll
  /\ ex' = [ex EXCEPT ![p] =
              [IdleEx EXCEPT !.kind = "form", !.pc = "lock",
                             !.sub = [name |-> name, jobId |-> jobId,
                                      email |-> email]]]
  /\ UNCHANGED <<tables, mute, aux, store, guardProp, locks, batch>>

\* processFormSubmission: the submission is blocked (email or job ID
\* missing, or the composite key is in the candidate index)
FormBlocked(sub, allT) ==
  \/ NormEmail(sub.email) = Blank
  \/ Trim(sub.jobId) = Blank
  \/ KeyFor(Trim(sub.jobId), NormEmail(sub.email)) \in IndexKeys(allT)

\* processFormSubmission: the row appended for a submission
FormRow(sub) ==
  [MkAll(Trim(sub.name), Trim(sub.jobId), Trim(sub.email))
     EXCEPT !.Created = Now, !.Updated = Now]

\* a locked body that appends without looking at the candidate index
FormBodyNoIndexCheck(p) ==
  /\ ex[p].pc = "body"
  /\ ex[p].kind = "form"
  /\ IF NormEmail(ex[p].sub.email) = Blank \/ Trim(ex[p].sub.jobId) = Blank
     THEN UNCHANGED <<all, act>>
     ELSE \E all1 \in {Append(all, FormRow(ex[p].sub))} :
          \E all2 \in {AutopopulateRow(req, all1, Len(all1))} :
          \E r \in {ReconcileByJobIds(req, all2, act, mute,
                                      <<Trim(ex[p].sub.jobId)>>)} :
            /\ all' = r.all
            /\ act' = r.act
  /\ ex' = [ex EXCEPT ![p].pc = "finally"]
  /\ UNCHANGED <<req, mute, aux, store, guardProp, locks, batch>>

\* processFormSubmission, the locked body
FormBody(p) ==
  /\ ex[p].pc = "body"
  /\ ex[p].kind = "form"
  /\ IF FormBlocked(ex[p].sub, all)
     THEN UNCHANGED <<all, act>>
     ELSE \E all1 \in {Append(all, FormRow(ex[p].sub))} :
          \E all2 \in {AutopopulateRow(req, all1, Len(all1))} :
          \E r \in {ReconcileByJobIds(req, all2, act, mute,
                                      <<Trim(ex[p].sub.jobId)>>)} :
            /\ all' = r.all
            /\ act' = r.act
  /\ ex' = [ex EXCEPT ![p].pc = "finally"]
  /\ UNCHANGED <<req, mute, aux, store, guardProp, locks, batch>>

InitForm ==
  /\ req \in EditReqs
  /\ \E rows \in SeqsUpTo({MkAll(NameA, J1, MailA), MkAll(NameB, J2, MailB)}, 1) :
     \E r \in {Reconciled(req, rows)} :
       /\ all = r.all
       /\ act = r.act
  /\ mute = {}
  /\ queueProp = PropAbsent
  /\ schedProp = 0
  /\ triggers = {}
  /\ nextTid = 1
  /\ guardProp = FALSE
  /\ docLock = 0
  /\ scriptLock = 0
  /\ ex = [p \in Procs |-> IdleEx]
  /\ batch = EmptyBatch
  /\ InitAux

NextForm ==
  \/ \E p \in Procs, name \in {NameA}, jobId \in {J1, J2, Blank},
        email \in {MailA, MailAU, MailB, Blank} :
       StartForm(p, name, jobId, email)
  \/ \E p \in Procs : WithLockAcquire(p)
  \/ \E p \in Procs : WithLockBusySkip(p)
  \/ \E p \in Procs : WithLockGuardSet(p)
  \/ \E p \in Procs : FormBody(p)
  \/ \E p \in Procs : WithLockFinally(p)
  \/ \E p \in Procs : Finish(p)

SpecForm == InitForm /\ [][NextForm]_vars

\* the step runs the locked body of processFormSubmission
FormRuns(p) == ex[p].kind = "form" /\ ex[p].pc = "body" /\ ex'[p].pc # "body"

\* no two indexed rows of Candidate Database have the same composite key
KeysUnique(allT) ==
  \A i, j \in 1..Len(allT) :
    (i # j /\ Indexed(allT[i]) /\ Indexed(allT[j]))
      => RowKey(allT[i]) # RowKey(allT[j])

\* C19, for submissions that get the lock: a form submission whose locked body runs (the handler
\* acquired the document lock) and whose composite key already exists in
\* Candidate Database, or whose email or job ID is missing, appends no
\* row and changes no table; any other submission whose locked body runs
\* appends exactly one Candidate row, under its composite key, and leaves
\* the keys of the rows before it as they were; so form submissions never
\* create two rows with the same composite key.
C19_FormAppendsOneWhenRun ==
  /\ [][\A p \in Procs : FormRuns(p) =>
          IF FormBlocked(ex[p].sub, all)
          THEN tables' = tables
          ELSE /\ Len(all') = Len(all) + 1
               /\ RowKey(all'[Len(all')])
                    = KeyFor(Trim(ex[p].sub.jobId), NormEmail(ex[p].sub.email))
               /\ \A i \in 1..Len(all) : RowKey(all'[i]) = RowKey(all[i])
               /\ req' = req]_vars
  /\ [](KeysUnique(all))

\* a submission under the key of an existing row, in another letter case,
\* has run and was blocked: the table holds the earlier row and none with
\* the submitted spelling
C19_Witness ==
  \E p \in Procs :
    /\ ex[p].kind = "form"
    /\ ex[p].pc = "finally"
    /\ ex[p].sub.email = MailAU
    /\ ex[p].sub.jobId = J1
    /\ Len(all) = 2
    /\ \E i \in 1..Len(all) : all[i].JobID = J1 /\ all[i].Email = MailA
    /\ \A i \in 1..Len(all) : all[i].Email # MailAU

\* C19: a form submission whose composite key already exists in Candidate
\* Database, or whose email or job ID is missing, appends no row and
\* changes no table; any other submission appends exactly one Candidate
\* row: when its handler has ended, a row under its key is in Candidate
\* Database.
C19_FormAppendsOne ==
  /\ C19_FormAppendsOneWhenRun
  /\ [](\A p \in Procs :
          (ex[p].kind = "form" /\ ex[p].pc = "done"
             /\ NormEmail(ex[p].sub.email) # Blank
             /\ Trim(ex[p].sub.jobId) # Blank)
            => KeyFor(Trim(ex[p].sub.jobId), NormEmail(ex[p].sub.email))
                 \in IndexKeys(all))

(* ------------------------------------------------------------------ *)
(* SpecJobIds: requisitions are added, given job IDs by ensureJobIds_,  *)
(* retyped and deleted, over two calendar years                         *)
(* ------------------------------------------------------------------ *)
MaxReq == 2
MaxSeq == 3

\* the user types a title into the first empty row of Requisitions
UserAddReq(p, title) ==
  /\ ex[p].pc = "idle"
  /\ Len(req) < MaxReq
  /\ GetJobIdSequence(jobSeq, year) < MaxSeq
  /\ req' = Append(req, MkReq(Blank, Blank, title))
  /\ ex' = [ex EXCEPT ![p] =
              [IdleEx EXCEPT !.kind = "editReq", !.pc = "lock",
                             !.ev = [row |-> Len(req) + 1, email |-> FALSE,
                                     jobId |-> FALSE]]]
  /\ UNCHANGED <<all, act, mute, aux, store, guardProp, locks, batch>>

\* the user deletes row `row` of Requisitions: a REMOVE_ROW change, which
\* starts onChange_Installable
UserDeleteReq(p, row) ==
  /\ ex[p].pc = "idle"
  /\ row \in 1..Len(req)
  /\ req' = RemoveAt(req, row)
  /\ ex' = [ex EXCEPT ![p] = [IdleEx EXCEPT !.kind = "onChange", !.pc = "lock"]]
  /\ UNCHANGED <<all, act, mute, aux, store, guardProp, locks, batch>>

\* new Date().getFullYear() moves on to the next year
YearTurns ==
  /\ year + 1 \in Years
  /\ year' = year + 1
  /\ UNCHANGED <<tables, mute, fn, pass, processingHiredFlow, hf, jobSeq, issued, store,
                 guardProp, locks, batch, ex>>

InitJobIds ==
  /\ req = << >>
  /\ all = << >>
  /\ act = << >>
  /\ mute = {}
  /\ queueProp = PropAbsent
  /\ schedProp = 0
  /\ triggers = {}
  /\ nextTid = 1
  /\ guardProp = FALSE
  /\ docLock = 0
  /\ scriptLock = 0
  /\ ex = [p \in Procs |-> IdleEx]
  /\ batch = EmptyBatch
  /\ InitAux

NextJobIds ==
  \/ UserAddReq(1, Title1)
  \/ \E row \in 1..MaxReq, val \in {FormatJobId(2025, 2), FormatJobId(2026, 1)} :
       /\ row <= Len(req)
       /\ req[row].JobID # val
       /\ UserEditReq(1, row, "JobID", val)
  \/ \E row \in 1..MaxReq : UserDeleteReq(1, row)
  \/ YearTurns
  \/ \E p \in Procs : WithLockAcquire(p)
  \/ \E p \in Procs : WithLockGuardSet(p)
  \/ \E p \in Procs : EditReqBody(p)
  \/ \E p \in Procs : OnChangeBody(p)
  \/ \E p \in Procs : EnqueueLockAcquire(p)
  \/ \E p \in Procs : EnqueueRead(p)
  \/ \E p \in Procs : EnqueueWrite(p)
  \/ \E p \in Procs : ScheduleRead(p)
  \/ \E p \in Procs : ScheduleCheckExists(p)
  \/ \E p \in Procs : ScheduleCreate(p)
  \/ \E p \in Procs : ScheduleSet(p)
  \/ \E p \in Procs : EnqueueUnlock(p)
  \/ \E p \in Procs : WithLockFinally(p)
  \/ \E p \in Procs : Finish(p)

SpecJobIds == InitJobIds /\ [][NextJobIds]_vars

\* the job IDs in the Requisitions sheet
JobIdsOf(reqT) == {Trim(reqT[i].JobID) : i \in 1..Len(reqT)} \ {Blank}

\* C20: every job ID that ensureJobIds_ assigns to a row differs from every
\* ID present in the table and from every ID assigned earlier, and its
\* number is above the numbers assigned earlier in its year, also after
\* rows were deleted or IDs were typed by hand; a row that has a job ID
\* keeps it; so the IDs of the table's rows stay distinct.
C20_JobIdsNeverReused ==
  [][\A p \in Procs : EngineRuns(p) =>
       \A i \in 1..Len(req) :
         IF Trim(req[i].JobID) # Blank
         THEN req'[i].JobID = req[i].JobID
         ELSE \/ req'[i].JobID = Blank
              \/ /\ req'[i].JobID \notin JobIdsOf(req)
                 /\ req'[i].JobID \notin issued
                 /\ \A w \in issued :
                      Num4(w, 1) = Num4(req'[i].JobID, 1)
                        => Num4(w, 6) < Num4(req'[i].JobID, 6)
                 /\ \A k \in 1..Len(req) :
                      k # i => req'[k].JobID # req'[i].JobID]_vars

(* ------------------------------------------------------------------ *)
(* SpecEmail: normEmail applied once and twice to an address           *)
(* ------------------------------------------------------------------ *)
MaxLocal == 3

JohnDoeGmail ==
  <<"J","o","h","n",".","D","o","e","+","p","r","o","m","o","@">> \o GmailCom
JohnDoeCompany ==
  <<"J","o","h","n",".","D","o","e","+","p","r","o","m","o","@",
    "c","o","m","p","a","n","y",".","c","o","m">>

\* the addresses: a local part of letters, dots, plus signs and spaces
\* before a gmail-family or other domain, text without '@', text with two
\* '@', and the two addresses of the specification
EmailInputs ==
  {l \o <<"@">> \o d :
     l \in SeqsUpTo({"a", "B", ".", "+", " "}, MaxLocal),
     d \in {GmailCom, <<"G">> \o Tail(GooglemailCom), GmailCom \o <<" ">>,
            <<"x",".","c","o">>}}
  \cup SeqsUpTo({"a", "B", " "}, 2)
  \cup {<<"a","@","@">> \o GmailCom, JohnDoeGmail, JohnDoeCompany}

InitEmail ==
  /\ fn \in {[NoCall EXCEPT !.op = "normEmail", !.arg = s] : s \in EmailInputs}
  /\ req = << >>
  /\ all = << >>
  /\ act = << >>
  /\ mute = {}
  /\ queueProp = PropAbsent
  /\ schedProp = 0
  /\ triggers = {}
  /\ nextTid = 1
  /\ guardProp = FALSE
  /\ docLock = 0
  /\ scriptLock = 0
  /\ ex = [p \in Procs |-> IdleEx]
  /\ batch = EmptyBatch
  /\ processingHiredFlow = FALSE
  /\ hf = IdleHf
  /\ jobSeq = [y \in Years |-> SeqAbsent]
  /\ year = 2025
  /\ issued = {}
  /\ pass = IdlePass

\* normEmail(arg)
NormEmailOnce ==
  /\ fn.op = "normEmail"
  /\ fn' = [fn EXCEPT !.op = "once", !.once = NormEmail(fn.arg)]
  /\ UNCHANGED <<tables, mute, pass, processingHiredFlow, hf, jobSeq, year, issued,
                 store, guardProp, locks, batch, ex>>

\* normEmail(normEmail(arg))
NormEmailTwice ==
  /\ fn.op = "once"
  /\ fn' = [fn EXCEPT !.op = "twice", !.twice = NormEmail(fn.once)]
  /\ UNCHANGED <<tables, mute, pass, processingHiredFlow, hf, jobSeq, year, issued,
                 store, guardProp, locks, batch, ex>>

NextEmail == NormEmailOnce \/ NormEmailTwice

SpecEmail == InitEmail /\ [][NextEmail]_vars

\* the address has one '@' and a gmail-family domain
GmailFamily(s) ==
  /\ CountChar(s, "@") = 1
  /\ AfterFirst(s, "@") \in {GmailCom, GooglemailCom}

\* C21: normEmail lowercases and trims every address (the result has no
\* upper-case letter and no space at either end); for a gmail-family
\* domain the local part of the result has no '.' and no '+'; for every
\* other address the result is the lowercased, trimmed input; the two
\* addresses of the specification give the stated results; and applying
\* normEmail twice gives what applying it once gives.
C21_NormEmail ==
  /\ fn.op \in {"once", "twice"} =>
       /\ ToLower(fn.once) = fn.once
       /\ Trim(fn.once) = fn.once
       /\ IF GmailFamily(ToLower(Trim(fn.arg)))
          THEN /\ GmailFamily(fn.once)
               /\ CountChar(BeforeFirst(fn.once, "@"), ".") = 0
               /\ CountChar(BeforeFirst(fn.once, "@"), "+") = 0
          ELSE fn.once = ToLower(Trim(fn.arg))
       /\ fn.arg = JohnDoeGmail =>
            fn.once = <<"j","o","h","n","d","o","e","@">> \o GmailCom
       /\ fn.arg = JohnDoeCompany => fn.once = ToLower(JohnDoeCompany)
  /\ fn.op = "twice" => fn.twice = fn.once

(* ------------------------------------------------------------------ *)
(* SpecDays: the Days Open count of a requisition, computed on one day  *)
(* and again on a later day                                             *)
(* ------------------------------------------------------------------ *)
MaxDay == 34

InitDays ==
  /\ fn \in {[NoCall EXCEPT !.op = "daysOpen",
                            !.arg = [status |-> s, opened |-> o, closed |-> c,
                                     hired |-> h, today |-> MaxDay]] :
               s \in {StrOpen, StrOnHold, StrClosed, StrHired},
               o \in {NoDate} \cup 0..MaxDay,
               c \in {NoDate, 12, 30}, h \in {NoDate, 10, 31}}
  /\ req = << >>
  /\ all = << >>
  /\ act = << >>
  /\ mute = {}
  /\ queueProp = PropAbsent
  /\ schedProp = 0
  /\ triggers = {}
  /\ nextTid = 1
  /\ guardProp = FALSE
  /\ docLock = 0
  /\ scriptLock = 0
  /\ ex = [p \in Procs |-> IdleEx]
  /\ batch = EmptyBatch
  /\ processingHiredFlow = FALSE
  /\ hf = IdleHf
  /\ jobSeq = [y \in Years |-> SeqAbsent]
  /\ year = 2025
  /\ issued = {}
  /\ pass = IdlePass

\* Recompute_DaysOpen_Rows_ computes the count for the row
DaysOpenToday ==
  /\ fn.op = "daysOpen"
  /\ fn' = [fn EXCEPT !.op = "once",
                      !.once = DaysOpen(fn.arg.status, fn.arg.opened,
                                        fn.arg.closed, fn.arg.hired,
                                        fn.arg.today)]
  /\ UNCHANGED <<tables, mute, pass, processingHiredFlow, hf, jobSeq, year, issued,
                 store, guardProp, locks, batch, ex>>

\* and computes it again some days later, the row unchanged
DaysOpenLater ==
  /\ fn.op = "once"
  /\ \E k \in 1..3 :
       fn' = [fn EXCEPT !.op = "twice",
                        !.twice = DaysOpen(fn.arg.status, fn.arg.opened,
                                           fn.arg.closed, fn.arg.hired,
                                           fn.arg.today + k)]
  /\ UNCHANGED <<tables, mute, pass, processingHiredFlow, hf, jobSeq, year, issued,
                 store, guardProp, locks, batch, ex>>

NextDays == DaysOpenToday \/ DaysOpenLater

SpecDays == InitDays /\ [][NextDays]_vars

\* the business days from day s up to, not including, day e: Monday to
\* Friday, the listed holidays left out
BusinessDaysIn(s, e) ==
  Cardinality({d \in s..(e - 1) :
                 DayOfWeek(d) \in 1..5 /\ d \notin UsHolidays})

\* C22: Days Open is 0 when the opened date is unset; otherwise it is the
\* number of business days (Monday to Friday, the listed holidays left
\* out) from the opened date to the current day when the status is Open or
\* On Hold, and otherwise to the closed date, or to the hired date when
\* there is no closed date; for a Closed or Hired requisition with such a
\* date the count is the same on a later day.
C22_DaysOpen ==
  /\ fn.op \in {"once", "twice"} =>
       IF fn.arg.opened = NoDate THEN fn.once = 0
       ELSE IF fn.arg.status \in {StrOpen, StrOnHold}
            THEN fn.once = BusinessDaysIn(fn.arg.opened, fn.arg.today)
       ELSE IF fn.arg.closed # NoDate
            THEN fn.once = BusinessDaysIn(fn.arg.opened, fn.arg.closed)
       ELSE IF fn.arg.hired # NoDate
            THEN fn.once = BusinessDaysIn(fn.arg.opened, fn.arg.hired)
       ELSE TRUE
  /\ (fn.op = "twice" /\ fn.arg.status \in {StrClosed, StrHired}
        /\ (fn.arg.closed # NoDate \/ fn.arg.hired # NoDate))
       => fn.twice = fn.once

(* ------------------------------------------------------------------ *)
(* Full_Resync (Main): the six steps under withLock, each in its own    *)
(* try/catch                                                            *)
(* ------------------------------------------------------------------ *)

\* const steps = [...]: the step names in the order of the array
ResyncStepNames == <<"Job IDs", "Days Open", "Validations", "Job Sync",
                     "Active Sync", "Links">>

\* step.fn() of step n on the workbook s: ensureJobIds_,
\* Recompute_DaysOpen_All, rebuildAllValidations_ (data validation rules
\* only), Sweep_Autopopulate_All_From_Reqs_, reconcileActiveMembership_All_,
\* linkHygieneSweep_ (link columns only)
ResyncStepFn(n, s) ==
  LET JobIds(j) == [s EXCEPT !.req = j.req, !.jobSeq = j.seq,
                             !.issued = @ \cup Elems(j.ids)]
      Recon(r) == [s EXCEPT !.all = r.all, !.act = r.act]
  IN  CASE n = 1 -> JobIds(EnsureJobIds(s.req, s.jobSeq, year))
        [] n = 2 -> [s EXCEPT !.req = RecomputeDaysOpenRows(
                                        s.req, [i \in 1..Len(s.req) |-> i])]
        [] n = 4 -> [s EXCEPT !.all = AutopopulateAllFromJobId(
                                        s.req, s.all, [i \in 1..Len(s.all) |-> i])]
        [] n = 5 -> Recon(ReconcileAll(s.req, s.all, s.act, mute))
        [] OTHER -> s

\* the user picks 'Full Resync': the header checks pass, withLock is called
StartResync(p) ==
  /\ ex[p].pc = "idle"
  /\ ex' = [ex EXCEPT ![p] = [IdleEx EXCEPT !.kind = "resync", !.pc = "lock"]]
  /\ UNCHANGED <<tables, mute, aux, store, guardProp, locks, batch>>

\* one turn of the loop: try { step.fn(); logInfo('Resync step completed') }
ResyncStep(p) ==
  /\ ex[p].pc = "body"
  /\ ex[p].kind = "resync"
  /\ Len(ex[p].stepLog) < Len(ResyncStepNames)
  /\ \E n \in {Len(ex[p].stepLog) + 1} :
     \E s \in {ResyncStepFn(n, [req |-> req, all |-> all, act |-> act,
                                jobSeq |-> jobSeq, issued |-> issued])} :
       /\ req' = s.req
       /\ all' = s.all
       /\ act' = s.act
       /\ jobSeq' = s.jobSeq
       /\ issued' = s.issued
       /\ ex' = [ex EXCEPT
                   ![p].stepLog = Append(@, [level |-> "INFO",
                                             name |-> ResyncStepNames[n]]),
                   ![p].mode = IF n = 5 THEN "full" ELSE @,
                   ![p].pc = IF n = Len(ResyncStepNames) THEN "finally" ELSE @]
  /\ UNCHANGED <<mute, fn, pass, processingHiredFlow, hf, year, store, guardProp,
                 locks, batch>>

\* Full_Resync without the try/catch around step.fn(): the exception of a
\* step leaves the loop
ResyncStepThrowsAborts(p) ==
  /\ ex[p].pc = "body"
  /\ ex[p].kind = "resync"
  /\ Len(ex[p].stepLog) < Len(ResyncStepNames)
  /\ \E n \in {Len(ex[p].stepLog) + 1} :
       ex' = [ex EXCEPT
                ![p].failed = @ \cup {ResyncStepNames[n]},
                ![p].thrown = TRUE,
                ![p].pc = "finally"]
  /\ UNCHANGED <<tables, mute, aux, store, guardProp, locks, batch>>

\* one turn of the loop whose step.fn() throws:
\* catch (e) { logWarn('Resync step failed'); toast }, the loop goes on
ResyncStepThrows(p) ==
  /\ ex[p].pc = "body"
  /\ ex[p].kind = "resync"
  /\ Len(ex[p].stepLog) < Len(ResyncStepNames)
  /\ \E n \in {Len(ex[p].stepLog) + 1} :
       ex' = [ex EXCEPT
                ![p].failed = @ \cup {ResyncStepNames[n]},
                ![p].stepLog = Append(@, [level |-> "WARN",
                                          name |-> ResyncStepNames[n]]),
                ![p].pc = IF n = Len(ResyncStepNames) THEN "finally" ELSE @]
  /\ UNCHANGED <<tables, mute, aux, store, guardProp, locks, batch>>

(* ------------------------------------------------------------------ *)
(* SpecResync: the menu item 'Full Resync', run from two sessions over  *)
(* a workbook that may have a requisition without an ID and an Active   *)
(* sheet out of sync                                                    *)
(* ------------------------------------------------------------------ *)
ResyncReqs == {QueueReq,
               <<MkReq(J1, StrOpen, Title1), MkReq(Blank, StrOpen, Title2)>>}

InitResync ==
  /\ req \in ResyncReqs
  /\ \E r \in {Reconciled(QueueReq, QueueAll)} :
       /\ all = r.all
       /\ act \in {r.act, << >>}
  /\ mute = {}
  /\ queueProp = PropAbsent
  /\ schedProp = 0
  /\ triggers = {}
  /\ nextTid = 1
  /\ guardProp = FALSE
  /\ docLock = 0
  /\ scriptLock = 0
  /\ ex = [p \in Procs |-> IdleEx]
  /\ batch = EmptyBatch
  /\ InitAux

NextResync ==
  \/ \E p \in Procs : StartResync(p)
  \/ \E p \in Procs : WithLockAcquire(p)
  \/ \E p \in Procs : WithLockBusyFallback(p)
  \/ \E p \in Procs : WithLockGuardSet(p)
  \/ \E p \in Procs : ResyncStep(p)
  \/ \E p \in Procs : ResyncStepThrows(p)
  \/ \E p \in Procs : WithLockFinally(p)
  \/ \E p \in Procs : EnqueueLockAcquire(p)
  \/ \E p \in Procs : EnqueueRead(p)
  \/ \E p \in Procs : EnqueueWrite(p)
  \/ \E p \in Procs : ScheduleRead(p)
  \/ \E p \in Procs : ScheduleCheckExists(p)
  \/ \E p \in Procs : ScheduleCreate(p)
  \/ \E p \in Procs : ScheduleSet(p)
  \/ \E p \in Procs : EnqueueUnlock(p)
  \/ \E p \in Procs : Finish(p)

SpecResync == InitResync /\ [][NextResync]_vars

\* the runs of Full_Resync whose locked function was entered
ResyncRuns == {p \in Procs : ex[p].kind = "resync" /\ ex[p].fnRan}

\* C24: in a run of Full_Resync the steps are attempted in the order of the
\* array whatever the earlier ones did, every step that threw has its
\* failure logged, the run leaves the loop only after all six steps, and
\* once it has ended the document lock is no longer its own and the
\* recursion guard is set only for another holder of the lock
C24_ResyncContinuesPastFailures ==
  \A p \in ResyncRuns :
    /\ [i \in 1..Len(ex[p].stepLog) |-> ex[p].stepLog[i].name]
         = SubSeq(ResyncStepNames, 1, Len(ex[p].stepLog))
    /\ \A n \in ex[p].failed :
         \E i \in 1..Len(ex[p].stepLog) :
           ex[p].stepLog[i] = [level |-> "WARN", name |-> n]
    /\ ex[p].pc \in {"finally", "done"}
         => Len(ex[p].stepLog) = Len(ResyncStepNames)
    /\ ex[p].pc = "done"
         => /\ docLock # p
            /\ guardProp => docLock # 0

\* a run whose first step threw attempted all six steps, brought Active in
\* sync in the fifth, and released lock and guard
C24_Witness ==
  \E p \in ResyncRuns :
    /\ ex[p].pc = "done"
    /\ "Job IDs" \in ex[p].failed
    /\ Len(ex[p].stepLog) = Len(ResyncStepNames)
    /\ ex[p].stepLog[5].level = "INFO"
    /\ act # << >>
    /\ docLock = 0
    /\ ~guardProp

(* ------------------------------------------------------------------ *)
(* handleEditActiveCandidates (Triggers.js)                            *)
(* ------------------------------------------------------------------ *)

\* the user types `val` into cell `col` of Active row `row`;
\* onEdit_Installable dispatches the edit to handleEditActiveCandidates
UserEditAct(p, row, col, val) ==
  /\ ex[p].pc = "idle"
  /\ row \in 1..Len(act)
  /\ act' = [act EXCEPT ![row][col] = val]
  /\ ex' = [ex EXCEPT ![p] =
              [IdleEx EXCEPT !.kind = "editAct", !.pc = "lock",
                             !.ev = [row |-> row, email |-> col = "Email",
                                     jobId |-> col = "JobID"]]]
  /\ UNCHANGED <<req, all, mute, aux, store, guardProp, locks, batch>>

\* handleEditActiveCandidates, the locked body up to the enqueue: the row's
\* key is marked recently edited, the row is written back to Candidate
\* Database, its job is queued; a row without job ID or email (or one that
\* is past the last row by now) is skipped
EditActBody(p) ==
  /\ ex[p].pc = "body"
  /\ ex[p].kind = "editAct"
  /\ IF ex[p].ev.row > Len(act)
        \/ Trim(act[ex[p].ev.row].JobID) = Blank
        \/ NormEmail(act[ex[p].ev.row].Email) = Blank
     THEN /\ ex' = [ex EXCEPT ![p].pc = "finally"]
          /\ UNCHANGED <<req, all, mute>>
     ELSE \E obj \in {act[ex[p].ev.row]} :
          \E st \in {UpsertAllFromActive(req, all, obj)} :
            /\ mute' = mute \cup {KeyFor(Trim(obj.JobID), NormEmail(obj.Email))}
            /\ req' = st.req
            /\ all' = st.all
            /\ ex' = [ex EXCEPT ![p].ids = <<Trim(obj.JobID)>>,
                                ![p].pc = "e_lock"]
  /\ UNCHANGED <<act, aux, store, guardProp, locks, batch>>

\* CacheService drops the mark of key k: CACHE_TTL_SHORT has passed
MuteExpires(k) ==
  /\ k \in mute
  /\ mute' = mute \ {k}
  /\ UNCHANGED <<tables, aux, store, guardProp, locks, batch, ex>>

(* ------------------------------------------------------------------ *)
(* SpecEngine: every engine operation over one workbook, one at a time: *)
(* the edit handlers of the three sheets (with the Hired Flow of a      *)
(* stage edit), form submissions, the structural-change handler, the    *)
(* debounced worker and Full Resync                                     *)
(* ------------------------------------------------------------------ *)

\* the user starts operations until MaxEnq of them have queued work or the
\* trigger has fired
EngineOpsLeft == batch.n < MaxEnq /\ \A t \in triggers : ~t.fired

InitEngine ==
  /\ req = QueueReq
  /\ \E r \in {Reconciled(QueueReq, <<MkAll(NameA, J1, MailA)>>)} :
       /\ all = r.all
       /\ act = r.act
  /\ mute = {}
  /\ queueProp = PropAbsent
  /\ schedProp = 0
  /\ triggers = {}
  /\ nextTid = 1
  /\ guardProp = FALSE
  /\ docLock = 0
  /\ scriptLock = 0
  /\ ex = [p \in Procs |-> IdleEx]
  /\ batch = EmptyBatch
  /\ InitAux

NextEngine ==
  \/ \E row \in 1..MaxAll, val \in {J1, J2} :
       /\ EngineOpsLeft
       /\ row <= Len(all)
       /\ all[row].JobID # val
       /\ UserEditAll(1, row, "JobID", val)
  \/ \E row \in 1..MaxAll :
       /\ EngineOpsLeft
       /\ row <= Len(all)
       /\ all[row].Stage # StrHired
       /\ UserEditAll(1, row, "Stage", StrHired)
  \/ \E row \in 1..MaxAct :
       /\ EngineOpsLeft
       /\ row <= Len(act)
       /\ act[row].Stage # StrInterviewing
       /\ UserEditAct(1, row, "Stage", StrInterviewing)
  \/ \E row \in 1..MaxReq, val \in {StrClosed} :
       /\ EngineOpsLeft
       /\ row <= Len(req)
       /\ req[row].JobStatus # val
       /\ UserEditReq(1, row, "JobStatus", val)
  \/ \E jobId \in {J1, J2}, email \in {MailA, MailB} :
       EngineOpsLeft /\ StartForm(1, NameB, jobId, email)
  \/ EngineOpsLeft /\ StartOnChange(1)
  \/ EngineOpsLeft /\ StartResync(1)
  \/ TriggerFire(1)
  \/ \E p \in Procs : WithLockAcquire(p)
  \/ \E p \in Procs : WithLockGuardSet(p)
  \/ \E p \in Procs : EditAllBody(p)
  \/ \E p \in Procs : EditActBody(p)
  \/ \E p \in Procs : EditReqBody(p)
  \/ \E p \in Procs : FormBody(p)
  \/ \E p \in Procs : OnChangeBody(p)
  \/ \E p \in Procs : ResyncStep(p)
  \/ \E p \in Procs : EnqueueLockAcquire(p)
  \/ \E p \in Procs : EnqueueRead(p)
  \/ \E p \in Procs : EnqueueWrite(p)
  \/ \E p \in Procs : ScheduleRead(p)
  \/ \E p \in Procs : ScheduleCheckExists(p)
  \/ \E p \in Procs : ScheduleCreate(p)
  \/ \E p \in Procs : ScheduleSet(p)
  \/ \E p \in Procs : EnqueueUnlock(p)
  \/ \E p \in Procs : WithLockFinally(p)
  \/ \E p \in Procs : Finish(p)
  \/ \E p \in Procs : WorkerRead(p)
  \/ \E p \in Procs : WorkerReconcile(p)
  \/ \E p \in Procs : WorkerDeleteQueue(p)
  \/ \E p \in Procs : WorkerDeleteMarker(p)
  \/ \E p \in Procs : DeleteTriggerRead(p)
  \/ \E k \in mute : MuteExpires(k)

SpecEngine == InitEngine /\ [][NextEngine]_vars

\* the step is a step of the engine: of a handler, the worker or the
\* resync, not the user's typing that starts one
EngineStep == \E p \in Procs : ex[p].pc \notin {"idle", "done"}

\* C23: no step of the engine (reconciliation, Hired Flow, the edit
\* handlers, form submission, the debounced worker, Full Resync) removes a
\* row of Candidate Database: the table never gets shorter (rows are
\* appended at the end only); Requisitions keeps its rows too
C23_NoCandidateRowDeleted ==
  [][EngineStep =>
       /\ Len(all') >= Len(all)
       /\ Len(req') = Len(req)]_vars

\* the engine has emptied Active (its rows were deleted by a reconciliation)
\* while Candidate Database holds every row it had and the form's row
C23_Witness ==
  /\ act = << >>
  /\ Len(all) = MaxAll
  /\ \A i \in 1..Len(req) : CanonReqStatus(req[i].JobStatus) = StrClosed
  /\ \E p \in Procs : ex[p].kind = "worker" /\ ex[p].pc = "done"
                      /\ ex[p].mode \in {"full", "scoped"}

(* ------------------------------------------------------------------ *)
(* reconcileActiveMembership_ByJobIds_ statement by statement: the     *)
(* deletion pass row by row, then the loop over relevantRows            *)
(* ------------------------------------------------------------------ *)

\* the rows of table t whose numbers are not in S, in order
Without(t, S) ==
  LET Keep(F) == [k \in 1..Cardinality({j \in 1..Len(t) : j \notin S}) |->
                    t[F[k]]]
      Nth(k) == CHOOSE j \in 1..Len(t) :
                  /\ j \notin S
                  /\ Cardinality({m \in 1..j : m \notin S}) = k
  IN  Keep([k \in 1..Cardinality({j \in 1..Len(t) : j \notin S}) |-> Nth(k)])

\* the call: the indexes are built and toDelete is collected from idxAct
PassStart(jobIds) ==
  /\ pass.pc = "idle"
  /\ \E sel \in {RowsToDelete(req, all, act, jobIds)} :
       pass' = [IdlePass EXCEPT !.pc = IF sel = {} THEN "upsert" ELSE "delete",
                                !.jobIds = jobIds, !.toDelete = sel,
                                !.selected = sel, !.all0 = all, !.act0 = act,
                                !.i = 1]
  /\ UNCHANGED <<tables, mute, fn, processingHiredFlow, hf, jobSeq, year, issued,
                 store, guardProp, locks, batch, ex>>

\* one turn of toDelete.sort((a,b) => b - a).forEach(r => act.deleteRow(r))
PassDeleteRow ==
  /\ pass.pc = "delete"
  /\ \E r \in {NextDelete(pass.toDelete)} :
       /\ act' = RemoveAt(act, r)
       /\ pass' = [pass EXCEPT !.toDelete = @ \ {r},
                               !.deleted = Append(@, r),
                               !.pc = IF pass.toDelete = {r} THEN "upsert" ELSE @]
  /\ UNCHANGED <<req, all, mute, fn, processingHiredFlow, hf, jobSeq, year,
                 issued, store, guardProp, locks, batch, ex>>

\* one turn of for (const { row, data } of relevantRows), for Candidate
\* row pass.i
PassRow ==
  /\ pass.pc = "upsert"
  /\ pass.i <= Len(all)
  /\ \E st \in {ReconcileRow(req, mute, pass.jobIds, pass.i,
                             [all |-> all, act |-> act, seen |-> pass.seen,
                              writes |-> 0])} :
       /\ all' = st.all
       /\ act' = st.act
       /\ pass' = [pass EXCEPT !.i = @ + 1, !.seen = st.seen]
  /\ UNCHANGED <<req, mute, fn, processingHiredFlow, hf, jobSeq, year, issued,
                 store, guardProp, locks, batch, ex>>

\* the loop is over: logInfo('Reconcile complete'), return
PassEnd ==
  /\ pass.pc = "upsert"
  /\ pass.i > Len(all)
  /\ pass' = [pass EXCEPT !.pc = "done"]
  /\ UNCHANGED <<tables, mute, fn, processingHiredFlow, hf, jobSeq, year, issued,
                 store, guardProp, locks, batch, ex>>

(* ------------------------------------------------------------------ *)
(* SpecPass: one reconciliation pass, full or scoped, over the          *)
(* workbooks of SpecRecon (Active stale, orphaned or duplicated, a key  *)
(* possibly marked recently edited, duplicate Candidate keys)           *)
(* ------------------------------------------------------------------ *)
PassScopes == {<< >>, <<J1>>, <<J2>>}

\* Candidate rows as typed (job fields empty), rows an earlier pass has
\* filled in (in step with the requisition, or with a title that is stale)
\* and a row with a stage
PassAllRows ==
  ReconAllRows
  \cup {[MkAll(NameA, J1, MailA) EXCEPT !.JobTitle = t, !.JobStatus = StrOpen] :
          t \in {Title1, Title2}}
  \cup {[MkAll(NameA, J1, MailA) EXCEPT !.Stage = StrInterviewing]}

InitPass ==
  /\ req \in ReconReqs
  /\ all \in SeqsUpTo(PassAllRows, MaxAll)
  /\ act \in SeqsUpTo(ReconActRows, MaxAct)
  /\ mute \in {{}, {KeyFor(J1, MailA)}}
  /\ queueProp = PropAbsent
  /\ schedProp = 0
  /\ triggers = {}
  /\ nextTid = 1
  /\ guardProp = FALSE
  /\ docLock = 0
  /\ scriptLock = 0
  /\ ex = [p \in Procs |-> IdleEx]
  /\ batch = EmptyBatch
  /\ InitAux

NextPass ==
  \/ \E jobIds \in PassScopes : PassStart(jobIds)
  \/ PassDeleteRow
  \/ PassRow
  \/ PassEnd

SpecPass == InitPass /\ [][NextPass]_vars

\* the statement-by-statement pass ends with the tables the operator
\* ReconcileByJobIds computes
PassAgreesWithOperator ==
  pass.pc = "done" =>
    \E r \in {ReconcileByJobIds(req, pass.all0, pass.act0, mute, pass.jobIds)} :
      all = r.all /\ act = r.act

\* the step is a turn of the upsert loop
PassRowStep == pass.pc = "upsert" /\ pass'.pc = "upsert" /\ pass'.i = pass.i + 1

\* C25: within one pass the Active deletions come first, in descending row
\* order: while rows are being deleted and when the upsert loop starts,
\* Active is the table the pass started on without exactly the rows deleted
\* so far, and when the loop starts these are exactly the selected rows;
\* after that no step removes an Active row, and a turn of the loop writes
\* or appends only a row that carries the key of the Candidate row it is
\* processing (and carried it before, if it existed)
C25_DeletionsFirstDescending ==
  /\ [](/\ (pass.pc = "delete" \/ (pass.pc = "upsert" /\ pass.i = 1))
             => act = Without(pass.act0, Elems(pass.deleted))
        /\ pass.pc \in {"upsert", "done"}
             => /\ Elems(pass.deleted) = pass.selected
                /\ Len(pass.deleted) = Cardinality(pass.selected)
        /\ \A a, b \in 1..Len(pass.deleted) :
             a < b => pass.deleted[a] > pass.deleted[b])
  /\ [][PassRowStep =>
          /\ Len(act') >= Len(act)
          /\ \A j \in 1..Len(act') :
               (j > Len(act) \/ act'[j] # act[j])
                 => /\ RowKey(act'[j]) = RowKey(all[pass.i])
                    /\ j <= Len(act) => RowKey(act[j]) = RowKey(all[pass.i])]_vars

\* a pass that deleted two Active rows and then appended a row for a
\* candidate has ended
C25_Witness ==
  /\ pass.pc = "done"
  /\ Len(pass.deleted) = 2
  /\ \E j \in 1..Len(act) : act[j].FullName = NameA

\* the loop processes Candidate row i: it is indexed, has job ID and email,
\* is in scope and its key has not been processed in this pass
PassProcesses(i) ==
  /\ Indexed(all[i])
  /\ NormStr(all[i].JobID) # Blank
  /\ NormEmail(all[i].Email) # Blank
  /\ pass.jobIds = << >> \/ Includes(pass.jobIds, NormStr(all[i].JobID))
  /\ KeyFor(NormStr(all[i].JobID), NormEmail(all[i].Email)) \notin pass.seen

\* the requisition row of Candidate row i (0: none)
PassReqRow(i) == ReqIndexGet(req, NormStr(all[i].JobID))

\* title and canonical status of the requisition of Candidate row i
PassWant(i) ==
  [JobTitle  |-> req[PassReqRow(i)].JobTitle,
   JobStatus |-> CanonReqStatus(req[PassReqRow(i)].JobStatus)]

\* the mirrored job fields of Candidate row i that differ from them
PassDiff(i) ==
  {f \in {"JobTitle", "JobStatus"} : ~ValsEqual(PassWant(i)[f], all[i][f])}

\* C26: a turn of the reconciliation loop changes no Candidate row but the
\* one it processes, and of that row only Job Title, Job Status and Updated;
\* a job field is written only where it differs from the requisition's
\* title or canonical status, and then with that value; Updated is stamped
\* with the current time when the diff is non-empty and left alone when it
\* is empty; a row whose job ID matches no requisition is left as it is
C26_JobFieldsWrittenOnlyOnDiff ==
  [][PassRowStep =>
       /\ Len(all') = Len(all)
       /\ \A j \in 1..Len(all) : j # pass.i => all'[j] = all[j]
       /\ \A f \in DOMAIN all[pass.i] \ {"JobTitle", "JobStatus", "Updated"} :
            all'[pass.i][f] = all[pass.i][f]
       /\ PassReqRow(pass.i) = 0 => all'[pass.i] = all[pass.i]
       /\ PassReqRow(pass.i) # 0 =>
            /\ \A f \in {"JobTitle", "JobStatus"} :
                 all'[pass.i][f] = IF f \in PassDiff(pass.i) /\ PassProcesses(pass.i)
                                   THEN PassWant(pass.i)[f]
                                   ELSE all[pass.i][f]
            /\ all'[pass.i].Updated =
                 IF PassDiff(pass.i) # {} /\ PassProcesses(pass.i)
                 THEN Now ELSE all[pass.i].Updated]_vars

\* a pass has ended that left a row in step with its requisition unstamped,
\* wrote the stale title of another and left a row of an unknown job as
\* it was typed
C26_Witness ==
  /\ pass.pc = "done"
  /\ \E i, j \in 1..Len(all) :
       /\ pass.all0[i].JobTitle = Title1 /\ all[i] = pass.all0[i]
       /\ NormStr(all[i].JobID) = J1 /\ all[i].Updated = Blank
       /\ \/ /\ pass.all0[j].JobTitle = Title2 /\ NormStr(all[j].JobID) = J1
             /\ all[j].JobTitle = Title1 /\ all[j].Updated = Now
          \/ /\ ReqIndexGet(req, NormStr(all[j].JobID)) = 0
             /\ all[j].JobID = J2 /\ all[j] = pass.all0[j]

\* row r belongs to a job the scoped pass was not called for
OutOfScope(r) == pass.jobIds # << >> /\ ~Includes(pass.jobIds, Trim(r.JobID))

\* the Active rows (of the index) that have no Candidate row under their
\* key or whose requisition is not open, whatever their job
StaleRows(reqT, allT, actT) ==
  {IndexGet(actT, k) : k \in
     {x \in IndexKeys(actT) :
        \/ x \notin IndexKeys(allT)
        \/ ReqIndexGet(reqT, BeforeFirst(x, "|")) = 0
        \/ ~IsOpenForActive(reqT[ReqIndexGet(reqT, BeforeFirst(x, "|"))].JobStatus)}}

\* C27: no step of a pass called with a list of job IDs writes, inserts or
\* deletes a Candidate Database or Active row of a job that is not in the
\* list: those rows stay what and where they are (in Active, in their
\* order); a pass called with an empty list selects the stale Active rows
\* of every job and restricts to its own job only among them when a list
\* is given
C27_ScopedPassTouchesOnlyItsJobs ==
  /\ [][pass.pc \in {"delete", "upsert"} =>
          /\ Len(all') = Len(all)
          /\ \A j \in 1..Len(all) : OutOfScope(all[j]) => all'[j] = all[j]
          /\ SelectSeq(act', OutOfScope) = SelectSeq(act, OutOfScope)]_vars
  /\ [](pass.pc # "idle" =>
          pass.selected =
            {r \in StaleRows(req, pass.all0, pass.act0) :
               ~OutOfScope(pass.act0[r])})

\* a pass for job J1 alone has ended: it deleted an Active row of J1 and
\* left a stale Active row of J2 (no Candidate row under its key) in place
C27_Witness ==
  /\ pass.pc = "done"
  /\ pass.jobIds = <<J1>>
  /\ Len(pass.deleted) >= 1
  /\ \E j \in 1..Len(act) :
       /\ Trim(act[j].JobID) = J2
       /\ RowKey(act[j]) \notin IndexKeys(all)

\* what a turn of the loop for Candidate row pass.i does when no key is
\* marked
PassRowUnmarked ==
  ReconcileRow(req, {}, pass.jobIds, pass.i,
               [all |-> all, act |-> act, seen |-> pass.seen, writes |-> 0])

\* C28: a turn of the reconciliation loop for a Candidate row whose key is
\* marked recently edited in Active leaves Active as it is (no upsert),
\* and writes to Candidate Database what it would write without the mark;
\* rows whose key is not marked get their upsert; and the deletion pass
\* takes no notice of the marks: once it is over, the stale Active row of
\* a marked key in scope has been deleted like any other
C28_RecentEditSkipsUpsertOnly ==
  /\ [][PassRowStep =>
          /\ all' = PassRowUnmarked.all
          /\ act' = IF RowKey(all[pass.i]) \in mute THEN act
                    ELSE PassRowUnmarked.act]_vars
  /\ [](pass.pc \in {"upsert", "done"} =>
          \A k \in mute :
            \A r \in StaleRows(req, pass.all0, pass.act0) :
              (RowKey(pass.act0[r]) = k /\ ~OutOfScope(pass.act0[r]))
                => r \in Elems(pass.deleted))

\* a pass has ended in which the Candidate row of a marked key got its job
\* fields and timestamp written while the Active row of the key kept the
\* name it had (no upsert)
C28_Witness ==
  /\ pass.pc = "done"
  /\ \E i \in 1..Len(all), j \in 1..Len(act) :
       /\ RowKey(all[i]) \in mute
       /\ RowKey(act[j]) = RowKey(all[i])
       /\ IsOpenForActive(all[i].JobStatus)
       /\ all[i].Updated = Now
       /\ pass.all0[i].Updated = Blank
       /\ act[j].FullName = NameB
       /\ all[i].FullName = NameA

\* a pass has deleted the stale Active row of a marked key
C28_WitnessDeleted ==
  /\ pass.pc = "done"
  /\ \E r \in Elems(pass.deleted) : RowKey(pass.act0[r]) \in mute

\* the Candidate rows of the table the pass started on that carry key k
PassRowsOf(k) ==
  {i \in 1..Len(pass.all0) : Indexed(pass.all0[i]) /\ RowKey(pass.all0[i]) = k}

\* the keys that two Candidate rows carry and that the pass upserts: job ID
\* and email present, job in scope with an open requisition, key not marked
PassDuplicateKeys ==
  {k \in IndexKeys(pass.all0) :
     /\ Cardinality(PassRowsOf(k)) >= 2
     /\ \A i \in PassRowsOf(k) :
          /\ NormStr(pass.all0[i].JobID) # Blank
          /\ NormEmail(pass.all0[i].Email) # Blank
          /\ ~OutOfScope(pass.all0[i])
          /\ ReqIndexGet(req, NormStr(pass.all0[i].JobID)) # 0
          /\ IsOpenForActive(
               req[ReqIndexGet(req, NormStr(pass.all0[i].JobID))].JobStatus)
     /\ k \notin mute}

\* Active row a mirrors Candidate row c (the Email cell shows the label of
\* its mailto link, the normalised email)
Mirrors(a, c) ==
  \A f \in ActFields :
    a[f] = (IF f = "Email" THEN NormEmail(c.Email) ELSE c[f])

\* C29: when two Candidate rows carry the same key, the pass ends (it does
\* not fail); the turn of the loop for the second occurrence changes
\* nothing; and at the end Active holds a single row under the key, which
\* mirrors the first occurrence
C29_DuplicateKeySkipsSecond ==
  /\ [](pass.pc = "done" =>
          \A k \in PassDuplicateKeys :
            \E j \in 1..Len(act) :
              /\ RowKey(act[j]) = k
              /\ \A m \in 1..Len(act) : RowKey(act[m]) = k => m = j
              /\ \E first \in PassRowsOf(k) :
                   /\ \A i \in PassRowsOf(k) : first <= i
                   /\ Mirrors(act[j], all[first]))
  /\ [][(PassRowStep /\ Indexed(all[pass.i]) /\ RowKey(all[pass.i]) \in pass.seen)
          => (all' = all /\ act' = act)]_vars

\* the same, for passes that start on an Active sheet without two rows
\* under one key
C29_DuplicateKeyCleanActive ==
  (\A a, b \in 1..Len(pass.act0) :
     (a # b /\ Indexed(pass.act0[a]) /\ Indexed(pass.act0[b]))
       => RowKey(pass.act0[a]) # RowKey(pass.act0[b]))
    => (pass.pc = "done" =>
          \A k \in PassDuplicateKeys :
            \E j \in 1..Len(act) :
              /\ RowKey(act[j]) = k
              /\ \A m \in 1..Len(act) : RowKey(act[m]) = k => m = j
              /\ \E first \in PassRowsOf(k) :
                   /\ \A i \in PassRowsOf(k) : first <= i
                   /\ Mirrors(act[j], all[first]))

(* ------------------------------------------------------------------ *)
(* The postcondition of enqueueAndSchedule_Reconcile (SpecQueue)       *)
(* ------------------------------------------------------------------ *)

\* the step is the return of an enqueue of execution p that held the queue
\* lock: finally { scriptLock.releaseLock(); }
EnqueueReturns(p) == ex[p].pc = "e_unlock" /\ scriptLock = p /\ scriptLock' = 0

\* the queue value an enqueue that read `raw` leaves for the IDs `ids`
EnqueueMerged(raw, ids) ==
  IF IsBareAll(raw) THEN raw
  ELSE JsonStringify(Dedup(ExistingIds(raw) \o ids))

C30_EnqueueOnIdleQueue ==
  [][\A p \in Procs :
       (EnqueueReturns(p) /\ ex[p].idle0) =>
         /\ queueProp' = EnqueueMerged(ex[p].raw, ex[p].ids)
         /\ \E t \in triggers' : ~t.fired]_vars

\* an enqueue on an idle queue is about to return
C30_IdleEnqueueReached ==
  \E p \in Procs : ex[p].pc = "e_unlock" /\ scriptLock = p /\ ex[p].idle0

(* ------------------------------------------------------------------ *)
(* SpecWorker: the worker fires on a queue entry that is not a list of  *)
(* job IDs, over a workbook whose Active sheet is still to be built     *)
(* ------------------------------------------------------------------ *)

\* queue values that are not the JSON text of an array: text that does not
\* parse, and the JSON text of another value
CorruptPayloads == {PropText(<<"{">>), PropJsonOther}

IsCorruptPayload(raw) == raw \in CorruptPayloads

InitWorker ==
  /\ req = QueueReq
  /\ \E st \in {StampCreatedAndUpdated(
                   [req |-> QueueReq, all |-> <<MkAll(NameA, J1, MailA)>>],
                   <<1>>)} :
       all = st.all
  /\ act = << >>
  /\ mute = {}
  /\ queueProp \in CorruptPayloads
  /\ schedProp = 1
  /\ triggers = {PendingTrigger}
  /\ nextTid = 2
  /\ guardProp = FALSE
  /\ docLock = 0
  /\ scriptLock = 0
  /\ ex = [p \in Procs |-> IdleEx]
  /\ batch = EmptyBatch
  /\ InitAux

SpecWorker == InitWorker /\ [][NextQueue]_vars

\* execution p is a worker run that read a corrupt payload and is past
\* the read
WorkerOnCorrupt(p) ==
  /\ ex[p].kind = "worker"
  /\ ex[p].pc \in {"w_run", "c_key", "c_sched", "d_read", "d_del", "d_fin",
                   "finally"}
  /\ IsCorruptPayload(ex[p].raw)

\* C31: a worker run that read a corrupt or non-array queue value writes no
\* table in any of its steps, deletes the queue entry and then the marker
\* (both are absent right after their deletion), reaches the end of
\* withLock with both deleted, and lets no exception out
C31_CorruptPayloadIsNothingToDo ==
  /\ [][\A p \in Procs :
          (WorkerOnCorrupt(p) /\ ex'[p] # ex[p]) =>
            /\ tables' = tables
            /\ ex[p].pc = "w_run" => ex'[p].pc = "c_key"
            /\ ex[p].pc = "c_key" => queueProp' = PropAbsent
            /\ ex[p].pc = "c_sched" => schedProp' = 0
            /\ ex[p].pc = "finally" =>
                  /\ ex[p].qdel /\ ex[p].mdel
                  /\ ~ex[p].thrown /\ ~ex'[p].escaped]_vars
  /\ [](\A p \in Procs :
          (ex[p].kind = "worker" /\ ex[p].pc = "done" /\ ex[p].fnRan)
            => ex[p].qdel /\ ex[p].mdel /\ ~ex[p].escaped)

\* a worker run that read a non-array JSON value has cleaned up and is
\* about to leave withLock; the Active sheet is still empty
C31_Witness ==
  \E p \in Procs :
    /\ ex[p].kind = "worker"
    /\ ex[p].pc = "finally"
    /\ ex[p].raw = PropJsonOther
    /\ ex[p].qdel /\ ex[p].mdel
    /\ act = << >>

(* ------------------------------------------------------------------ *)
(* The recursion guard of withLock (SpecLock)                          *)
(* ------------------------------------------------------------------ *)

\* the executions whose guarded function is running
RunningBody ==
  {p \in Procs : ex[p].acq /\ ex[p].fnRan /\ ex[p].pc \notin {"finally", "done", "idle"}}

\* the step is execution p finding the recursion guard set after it took
\* the document lock
GuardBlocks(p) ==
  ex[p].pc = "guard" /\ guardProp /\ ex'[p] # ex[p]

\* the step is the return of a withLock call of p that the guard blocked
BlockedCallReturns(p) ==
  /\ ex[p].pc = "finally"
  /\ ex[p].acq
  /\ ~ex[p].fnRan
  /\ ex'[p].pc = "done"

\* C32: a withLock call that finds the recursion guard set goes straight to
\* its return: the guarded function does not run and no table is written;
\* and while a guarded function runs, its execution holds the document
\* lock, the guard is set, and no other guarded function runs
C32_GuardBlocksNestedBody ==
  /\ [][\A p \in Procs :
          GuardBlocks(p) =>
            /\ ex'[p].pc = "finally"
            /\ ~ex'[p].fnRan
            /\ tables' = tables]_vars
  /\ [][\A p \in Procs :
          BlockedCallReturns(p) => (~ex'[p].fnRan /\ tables' = tables)]_vars
  /\ [](\A p \in RunningBody :
          /\ docLock = p
          /\ guardProp
          /\ RunningBody = {p})

\* a call was blocked by the guard and has returned without running the
\* guarded function
C32_Witness ==
  \E p \in Procs :
    /\ ex[p].pc = "done"
    /\ ex[p].acq
    /\ ~ex[p].fnRan
    /\ ~ex[p].busy

\* C37: when a withLock call that the recursion guard blocked returns, the
\* guard is still set and the document lock is not free
C37_BlockedCallLeavesGuard ==
  [][\A p \in Procs :
       BlockedCallReturns(p) => (guardProp' /\ docLock' # 0)]_vars

\* what the blocked call does when it returns: it deletes the guard and
\* releases the document lock
C37_BlockedCallClearsGuard ==
  [][\A p \in Procs :
       BlockedCallReturns(p) =>
         (guardProp /\ docLock = p /\ ~guardProp' /\ docLock' = 0)]_vars

\* a call blocked by the guard is about to return
C37_BlockedReached ==
  \E p \in Procs : ex[p].pc = "finally" /\ ex[p].acq /\ ~ex[p].fnRan

(* ------------------------------------------------------------------ *)
(* SpecActive: the user edits cells of Active Candidates in a workbook  *)
(* whose Candidate rows were created earlier; each edit runs            *)
(* handleEditActiveCandidates, then the debounced worker reconciles     *)
(* ------------------------------------------------------------------ *)

\* Candidate rows stamped at an earlier instant, job fields filled in
ActiveAllRows ==
  {[MkAll(NameA, J1, e) EXCEPT !.JobStatus = StrOpen, !.JobTitle = Title1,
                               !.Created = Earlier, !.Updated = Earlier] :
     e \in {MailA, MailB}}

\* what the user types into an Active row
ActiveEdits ==
  {<<"FullName", NameB>>, <<"Stage", StrInterviewing>>, <<"Stage", StrHired>>,
   <<"JobID", J2>>, <<"Email", MailB>>}

InitActive ==
  /\ req = QueueReq
  /\ \E rows \in SeqsUpTo(ActiveAllRows, MaxAll) :
       /\ rows # << >>
       /\ \E r \in {ReconcileAll(QueueReq, rows, << >>, {})} :
            /\ all = r.all
            /\ act = r.act
  /\ mute = {}
  /\ queueProp = PropAbsent
  /\ schedProp = 0
  /\ triggers = {}
  /\ nextTid = 1
  /\ guardProp = FALSE
  /\ docLock = 0
  /\ scriptLock = 0
  /\ ex = [p \in Procs |-> IdleEx]
  /\ batch = EmptyBatch
  /\ InitAux

NextActive ==
  \/ \E row \in 1..MaxAct, e \in ActiveEdits :
       /\ EngineOpsLeft
       /\ row <= Len(act)
       /\ act[row][e[1]] # e[2]
       /\ UserEditAct(1, row, e[1], e[2])
  \/ TriggerFire(1)
  \/ \E p \in Procs : WithLockAcquire(p)
  \/ \E p \in Procs : WithLockGuardSet(p)
  \/ \E p \in Procs : EditActBody(p)
  \/ \E p \in Procs : EnqueueLockAcquire(p)
  \/ \E p \in Procs : EnqueueRead(p)
  \/ \E p \in Procs : EnqueueWrite(p)
  \/ \E p \in Procs : ScheduleRead(p)
  \/ \E p \in Procs : ScheduleCheckExists(p)
  \/ \E p \in Procs : ScheduleCreate(p)
  \/ \E p \in Procs : ScheduleSet(p)
  \/ \E p \in Procs : EnqueueUnlock(p)
  \/ \E p \in Procs : WithLockFinally(p)
  \/ \E p \in Procs : Finish(p)
  \/ \E p \in Procs : WorkerRead(p)
  \/ \E p \in Procs : WorkerReconcile(p)
  \/ \E p \in Procs : WorkerDeleteQueue(p)
  \/ \E p \in Procs : WorkerDeleteMarker(p)
  \/ \E p \in Procs : DeleteTriggerRead(p)
  \/ \E k \in mute : MuteExpires(k)

SpecActive == InitActive /\ [][NextActive]_vars

\* the step is the locked body of handleEditActiveCandidates run by p on
\* an edited row that carries a job ID and an email
ActEditProcessed(p) ==
  /\ ex[p].pc = "body"
  /\ ex[p].kind = "editAct"
  /\ ex'[p] # ex[p]
  /\ ex[p].ev.row <= Len(act)
  /\ Trim(act[ex[p].ev.row].JobID) # Blank
  /\ NormEmail(act[ex[p].ev.row].Email) # Blank

\* the Candidate row the index yields for the key of Active row a (0: none)
CandidateRowOf(a) == IndexGet(all, RowKey(a))

C33_WitnessNoMatch ==
  /\ \E i \in 1..Len(act) : act[i].JobID = J2
  /\ \A i \in 1..Len(all) : all[i].JobID = J1
  /\ queueProp = JsonStringify(<<J2>>)

\* C39: a Created date that is set stays as it is in every step of the
\* Active edit handler and of the reconciliation
C39_CreatedNeverChanges ==
  [][\A i \in 1..Len(all) :
       all[i].Created # Blank =>
         (i <= Len(all') /\ all'[i].Created = all[i].Created)]_vars

\* the same for the steps of the reconciliation alone
C39_ReconciliationKeepsCreated ==
  [][(\E p \in Procs : ex[p].kind = "worker" /\ ex'[p] # ex[p]) =>
       \A i \in 1..Len(all) :
         (i <= Len(all') /\ all'[i].Created = all[i].Created)]_vars

\* a worker has reconciled a workbook with a Created date set
C39_ReconciledReached ==
  \E p \in Procs :
    /\ ex[p].kind = "worker" /\ ex[p].mode = "scoped" /\ ex[p].pc = "done"
    /\ \E i \in 1..Len(all) : all[i].Created = Earlier

(* ------------------------------------------------------------------ *)
(* SpecRange: businessDaysBetween on a start and an end day, next to    *)
(* the count of its day-by-day loop over the same days                  *)
(* ------------------------------------------------------------------ *)

\* the day-by-day loop of businessDaysBetween: for (d = s; d < e; d + 1)
\* count d when it is no Saturday or Sunday and its formatted date is not
\* in US_HOLIDAYS
DayByDayLoop(s, e) ==
  Cardinality({d \in s..(e - 1) :
                 DayOfWeek(d) # 0 /\ DayOfWeek(d) # 6 /\ d \notin UsHolidays})

InitRange ==
  /\ fn \in {[NoCall EXCEPT !.op = "range", !.arg = [s |-> s, e |-> e]] :
               s \in 0..MaxDay, e \in 0..MaxDay}
  /\ req = << >>
  /\ all = << >>
  /\ act = << >>
  /\ mute = {}
  /\ queueProp = PropAbsent
  /\ schedProp = 0
  /\ triggers = {}
  /\ nextTid = 1
  /\ guardProp = FALSE
  /\ docLock = 0
  /\ scriptLock = 0
  /\ ex = [p \in Procs |-> IdleEx]
  /\ batch = EmptyBatch
  /\ processingHiredFlow = FALSE
  /\ hf = IdleHf
  /\ jobSeq = [y \in Years |-> SeqAbsent]
  /\ year = 2025
  /\ issued = {}
  /\ pass = IdlePass

\* businessDaysBetween(s, e)
RangeCall ==
  /\ fn.op = "range"
  /\ fn' = [fn EXCEPT !.op = "counted",
                      !.once = BusinessDaysBetween(fn.arg.s, fn.arg.e)]
  /\ UNCHANGED <<tables, mute, pass, processingHiredFlow, hf, jobSeq, year, issued,
                 store, guardProp, locks, batch, ex>>

\* the loop of the short branch run over the same days
RangeLoop ==
  /\ fn.op = "counted"
  /\ fn' = [fn EXCEPT !.op = "looped", !.twice = DayByDayLoop(fn.arg.s, fn.arg.e)]
  /\ UNCHANGED <<tables, mute, pass, processingHiredFlow, hf, jobSeq, year, issued,
                 store, guardProp, locks, batch, ex>>

NextRange == RangeCall \/ RangeLoop

SpecRange == InitRange /\ [][NextRange]_vars

\* the range is longer than 14 days: the branch of full weeks times 5
IsLongRange == fn.arg.e - fn.arg.s > 14

\* C34: for a start and an end more than 14 days apart, the count of the
\* optimized branch equals the count of the day-by-day loop over the same
\* half-open range
C34_OptimizedEqualsLoop ==
  (fn.op = "looped" /\ IsLongRange) => fn.once = fn.twice

\* the same for the long ranges with no listed holiday in them or on the
\* day after their last day, and none on their first day
C34_EqualAwayFromHolidays ==
  (/\ fn.op = "looped"
   /\ IsLongRange
   /\ \A h \in UsHolidays : h \notin fn.arg.s..fn.arg.e)
    => fn.once = fn.twice

\* a long range away from the holidays has been counted both ways
C34_LongRangeReached ==
  /\ fn.op = "looped"
  /\ IsLongRange
  /\ \A h \in UsHolidays : h \notin fn.arg.s..fn.arg.e
  /\ fn.once > 10

(* ------------------------------------------------------------------ *)
(* Enqueues that arrive while the worker runs (SpecQueue)               *)
(* ------------------------------------------------------------------ *)

\* the step is the worker p deleting the queue entry in its finally block
WorkerDeletesQueue(p) ==
  ex[p].kind = "worker" /\ ex[p].pc = "c_key" /\ ex'[p].pc = "c_sched"

\* the IDs in the queue that were not there when worker p read it: they
\* were enqueued while p was executing
EnqueuedDuringRun(p) ==
  {id \in Elems(ExistingIds(queueProp)) : id \notin Elems(ExistingIds(ex[p].raw))}

\* C35: an ID enqueued after the worker has read the queue is not lost: the
\* worker's cleanup never deletes a queue entry that holds an ID the run
\* has not read (a deleted ID is in no later run's queue)
C35_EnqueuedDuringRunKept ==
  [][\A p \in Procs : WorkerDeletesQueue(p) => EnqueuedDuringRun(p) = {}]_vars

\* where the loss ends: the worker that read an unusable queue entry has
\* ended, the structural-change handler has stored its ID in the meantime,
\* and now nothing is queued, no trigger is pending and nothing executes
C35_LostAndQuiet ==
  /\ ex[1].kind = "worker" /\ ex[1].pc = "done" /\ ex[1].mode = "corrupt"
  /\ ex[2].kind = "onChange" /\ ex[2].pc = "done" /\ ex[2].enq
  /\ queueProp = PropAbsent
  /\ Unfired = {}

(* ------------------------------------------------------------------ *)
(* A worker run that withLock skips (SpecQueue)                        *)
(* ------------------------------------------------------------------ *)

\* the marker names a trigger that has fired: _scheduleReconcileTrigger
\* finds it in getProjectTriggers() and reports 'already scheduled'
StaleMarker == \E t \in triggers : t.id = schedProp /\ t.fired

\* worker run p found the document lock busy and was skipped
WorkerSkipped(p) ==
  ex[p].kind = "worker" /\ ex[p].pc = "done" /\ ex[p].busy /\ ~ex[p].fnRan

\* C36: when a worker run has been skipped, the marker does not name the
\* trigger that has fired, so that a later enqueue schedules a new run for
\* the IDs that are still queued
C36_SkippedRunCanBeRescheduled ==
  \A p \in Procs : WorkerSkipped(p) => ~StaleMarker

\* nothing is left that could run the worker or renew the marker: the
\* marker is stale, no trigger is pending, no worker run is under way and
\* no enqueue is past its test of the marker
QueueStuck ==
  /\ StaleMarker
  /\ Unfired = {}
  /\ \A q \in Procs :
       /\ ~(ex[q].kind = "worker" /\ ex[q].pc \notin {"idle", "done"})
       /\ ex[q].pc \notin {"s_create", "s_set"}
       /\ ex[q].pc = "s_check" => ex[q].mk = schedProp

\* once the queue is stuck it stays stuck, whatever is enqueued later: no
\* step creates a trigger, changes the marker or runs the worker
C36_StuckForever ==
  [][QueueStuck =>
       /\ QueueStuck'
       /\ schedProp' = schedProp]_vars

\* the queue is stuck and an edit handler that ran afterwards has stored
\* its job ID and returned without scheduling anything
C36_StuckReached ==
  /\ QueueStuck
  /\ queueProp.t = "jsonarr"
  /\ ExistingIds(queueProp) # << >>
  /\ ex[1].kind = "editAll" /\ ex[1].pc = "done" /\ ex[1].enq

(* ------------------------------------------------------------------ *)
(* SpecHiredName: two candidates of one job; the user edits their rows  *)
(* in Candidate Database (stage changes and edits of other cells), each *)
(* edit runs handleEditAllCandidates, the debounced worker reconciles   *)
(* ------------------------------------------------------------------ *)
InitHiredName ==
  /\ req = <<MkReq(J1, StrOpen, Title1)>>
  /\ \E r \in {Reconciled(<<MkReq(J1, StrOpen, Title1)>>,
                            <<MkAll(NameA, J1, MailA), MkAll(NameB, J1, MailB)>>)} :
       /\ all = r.all
       /\ act = r.act
  /\ mute = {}
  /\ queueProp = PropAbsent
  /\ schedProp = 0
  /\ triggers = {}
  /\ nextTid = 1
  /\ guardProp = FALSE
  /\ docLock = 0
  /\ scriptLock = 0
  /\ ex = [p \in Procs |-> IdleEx]
  /\ batch = EmptyBatch
  /\ InitAux

\* the user goes on editing until two triggers have been scheduled
HiredNameEditsLeft == batch.n < MaxEnq /\ nextTid <= 2

NextHiredName ==
  \/ \E row \in 1..MaxAll, val \in {StrHired, StrInterviewing} :
       /\ HiredNameEditsLeft
       /\ row <= Len(all)
       /\ all[row].Stage # val
       /\ UserEditAll(1, row, "Stage", val)
  \/ \E row \in 1..MaxAll : HiredNameEditsLeft /\ UserEditAllOther(1, row)
  \/ TriggerFire(1)
  \/ \E p \in Procs : WithLockAcquire(p)
  \/ \E p \in Procs : WithLockGuardSet(p)
  \/ \E p \in Procs : EditAllBody(p)
  \/ \E p \in Procs : EnqueueLockAcquire(p)
  \/ \E p \in Procs : EnqueueRead(p)
  \/ \E p \in Procs : EnqueueWrite(p)
  \/ \E p \in Procs : ScheduleRead(p)
  \/ \E p \in Procs : ScheduleCheckExists(p)
  \/ \E p \in Procs : ScheduleCreate(p)
  \/ \E p \in Procs : ScheduleSet(p)
  \/ \E p \in Procs : EnqueueUnlock(p)
  \/ \E p \in Procs : WithLockFinally(p)
  \/ \E p \in Procs : Finish(p)
  \/ \E p \in Procs : WorkerRead(p)
  \/ \E p \in Procs : WorkerReconcile(p)
  \/ \E p \in Procs : WorkerDeleteQueue(p)
  \/ \E p \in Procs : WorkerDeleteMarker(p)
  \/ \E p \in Procs : DeleteTriggerRead(p)

SpecHiredName == InitHiredName /\ [][NextHiredName]_vars

\* every edit has been processed: no execution is under way
AllEditsProcessed == \A p \in Procs : ex[p].pc \in {"idle", "done"}

\* the hired name of requisition row i is the name of a candidate of the
\* job whose stage is Hired
HiredNameIsHired(i) ==
  \E r \in 1..Len(all) :
    /\ NormStr(all[r].JobID) = NormStr(req[i].JobID)
    /\ NormStr(all[r].FullName) = NormStr(req[i].HiredCandidateName)
    /\ NormStr(all[r].Stage) = StrHired

\* the step is the locked body of handleEditAllCandidates for an edited
\* row whose stage is not Hired and whose job is Hired with a name on record
NonHiredEditOfHiredJob(p) ==
  /\ ex[p].pc = "body"
  /\ ex[p].kind = "editAll"
  /\ ex'[p] # ex[p]
  /\ NormStr(all[ex[p].ev.row].Stage) # StrHired
  /\ \E i \in 1..Len(req) :
       /\ NormStr(req[i].JobID) = NormStr(all[ex[p].ev.row].JobID)
       /\ CanonReqStatus(req[i].JobStatus) = StrHired
       /\ req[i].HiredCandidateName # Blank

\* C38: when every edit of Candidate Database has been processed, a
\* non-empty hired name of a requisition is the full name of a candidate
\* of that job whose stage is Hired; and the handler of an edit of a
\* candidate who is not hired leaves the hired name of an already Hired
\* job as it is
C38_HiredNameIsTheHiredCandidate ==
  /\ [](AllEditsProcessed =>
          \A i \in 1..Len(req) :
            req[i].HiredCandidateName # Blank => HiredNameIsHired(i))
  /\ [][\A p \in Procs :
          NonHiredEditOfHiredJob(p) =>
            \A i \in 1..Len(req) :
              req'[i].HiredCandidateName = req[i].HiredCandidateName]_vars

\* the first half alone, as long as no candidate row shows the job status
\* Hired (the reconciliation has not yet copied it from the requisition)
\* and no stage was changed away from Hired
C38_HeldBeforeStatusIsCopied ==
  (/\ AllEditsProcessed
   /\ \A r \in 1..Len(all) : NormStr(all[r].JobStatus) # StrHired
   /\ \A r \in 1..Len(all) :
        NormStr(all[r].RejectedReason) = StrHiredDifferent
          => NormStr(all[r].Stage) = StrRejected
   /\ \E r \in 1..Len(all) : NormStr(all[r].Stage) = StrHired)
    => \A i \in 1..Len(req) :
         req[i].HiredCandidateName # Blank => HiredNameIsHired(i)

\* a hire has been recorded and processed
C38_HireReached ==
  /\ AllEditsProcessed
  /\ req[1].HiredCandidateName = NameA
  /\ \E p \in Procs : ex[p].kind = "worker" /\ ex[p].pc = "done"

(* ------------------------------------------------------------------ *)
(* SpecMuted: the user edits a candidate's row in Active Candidates     *)
(* (the row's key is marked recently edited for CACHE_TTL_SHORT), then  *)
(* changes the requisition's title or puts it on hold; the handlers and *)
(* the debounced worker run, the mark expires at any moment             *)
(* ------------------------------------------------------------------ *)
InitMuted ==
  /\ req = <<MkReq(J1, StrOpen, Title1)>>
  /\ \E r \in {Reconciled(<<MkReq(J1, StrOpen, Title1)>>,
                            <<MkAll(NameA, J1, MailA), MkAll(NameB, J1, MailB)>>)} :
       /\ all = r.all
       /\ act = r.act
  /\ mute = {}
  /\ queueProp = PropAbsent
  /\ schedProp = 0
  /\ triggers = {}
  /\ nextTid = 1
  /\ guardProp = FALSE
  /\ docLock = 0
  /\ scriptLock = 0
  /\ ex = [p \in Procs |-> IdleEx]
  /\ batch = EmptyBatch
  /\ InitAux

\* no edit of the requisition has been made so far
ReqUntouched == req[1].JobTitle = Title1 /\ req[1].JobStatus = StrOpen

\* what the user does: edits of Active rows first, then the requisition's
\* title and status, each once
MutedUserStep ==
  \/ \E row \in 1..MaxAct :
       /\ ReqUntouched
       /\ row <= Len(act)
       /\ act[row].Stage # StrInterviewing
       /\ UserEditAct(1, row, "Stage", StrInterviewing)
  \/ /\ req[1].JobTitle # Title2
     /\ UserEditReq(1, 1, "JobTitle", Title2)
  \/ /\ req[1].JobStatus # StrOnHold
     /\ UserEditReq(1, 1, "JobStatus", StrOnHold)

\* what the script and the platform do without the user, apart from the
\* two steps that write the tables of candidates
MutedPlatformStep ==
  \/ TriggerFire(1)
  \/ \E p \in Procs : WithLockAcquire(p)
  \/ \E p \in Procs : WithLockGuardSet(p)
  \/ \E p \in Procs : EditReqBody(p)
  \/ \E p \in Procs : EnqueueLockAcquire(p)
  \/ \E p \in Procs : EnqueueRead(p)
  \/ \E p \in Procs : EnqueueWrite(p)
  \/ \E p \in Procs : ScheduleRead(p)
  \/ \E p \in Procs : ScheduleCheckExists(p)
  \/ \E p \in Procs : ScheduleCreate(p)
  \/ \E p \in Procs : ScheduleSet(p)
  \/ \E p \in Procs : EnqueueUnlock(p)
  \/ \E p \in Procs : WithLockFinally(p)
  \/ \E p \in Procs : Finish(p)
  \/ \E p \in Procs : WorkerRead(p)
  \/ \E p \in Procs : WorkerDeleteQueue(p)
  \/ \E p \in Procs : WorkerDeleteMarker(p)
  \/ \E p \in Procs : DeleteTriggerRead(p)
  \/ \E k \in mute : MuteExpires(k)

NextMuted ==
  \/ MutedUserStep
  \/ MutedPlatformStep
  \/ \E p \in Procs : EditActBody(p)
  \/ \E p \in Procs : WorkerReconcile(p)

\* the guards of EditActBody and of WorkerReconcile
EditActBodyEnabled ==
  \E p \in Procs : ex[p].pc = "body" /\ ex[p].kind = "editAct"

WorkerReconcileEnabled ==
  \E p \in Procs :
    ex[p].pc = "w_run" /\ WorkerMode(ex[p].raw) \in {"full", "scoped"}

\* a started handler runs to its end, a scheduled trigger fires, a cache
\* entry expires; the user is free to stop editing. The last two
\* conjuncts are weak fairness of EditActBody and of WorkerReconcile with
\* the enabling condition written out
SpecMuted ==
  /\ InitMuted
  /\ [][NextMuted]_vars
  /\ WF_vars(MutedPlatformStep)
  /\ ([]<>(~EditActBodyEnabled) \/ []<><<\E p \in Procs : EditActBody(p)>>_vars)
  /\ ([]<>(~WorkerReconcileEnabled)
        \/ []<><<\E p \in Procs : WorkerReconcile(p)>>_vars)

\* handleEditRequisitions is about to process an edit of the requisition
\* while a candidate of the job is marked recently edited
ReqEditWhileMarked ==
  /\ ex[1].kind = "editReq"
  /\ ex[1].pc = "body"
  /\ \E a \in 1..Len(act) : IsRecentlyEdited(mute, RowKey(act[a]))

\* every Active row shows the title and the status of its requisition
ActiveShowsReq ==
  \A a \in 1..Len(act) :
    \A i \in 1..Len(req) :
      NormStr(req[i].JobID) = NormStr(act[a].JobID) =>
        /\ act[a].JobTitle = req[i].JobTitle
        /\ act[a].JobStatus = CanonReqStatus(req[i].JobStatus)

\* C40: when the requisition's title or status is changed (the job stays
\* Open or On Hold) while a candidate of the job is marked recently
\* edited, the Active rows eventually show the requisition's title and
\* status
C40_ActiveEventuallyShowsReq == ReqEditWhileMarked ~> ActiveShowsReq

\* nothing is left to run: no execution, no queue, no pending trigger, no
\* mark
MutedQuiet ==
  /\ \A p \in Procs : ex[p].pc = "idle"
  /\ queueProp = PropAbsent
  /\ \A t \in triggers : t.fired
  /\ mute = {}

\* the Active row is stale and nothing is left to run
C40_StaleAndQuiet == MutedQuiet /\ ~ActiveShowsReq

\* the worker's pass brings every row that is not marked up to date
C40_UnmarkedRowsFollow ==
  [][\A p \in Procs :
       (ex[p].kind = "worker" /\ ex[p].pc = "w_run" /\ ex'[p].pc = "c_key"
        /\ ex'[p].mode # "threw" /\ mute = {})
         => ActiveShowsReq']_vars

====
